---- MODULE Spec2Model ----
(***************************************************************************)
(* State-machine model of the two contracts of the repository: the subsidy *)
(* ledger GreenHydrogenSubsidy (src/unnamed/part_006) and the DataOracle   *)
(* (src/unnamed/part_007).  Every external function is an operator from a  *)
(* pre-state record and the call's arguments to a result record            *)
(* [ok, err, st, ev]: st is the storage after the call (the pre-state when *)
(* the call reverts, as the EVM rolls a reverted call back), ev the events *)
(* it emitted.  One action per external function commits the result.       *)
(*                                                                         *)
(* The two contracts never call each other, so a behaviour exercises one   *)
(* of them: `contract` says which.  LedgerSpec and OracleSpec fix it, Spec *)
(* leaves the choice open.                                                 *)
(***************************************************************************)
EXTENDS Integers, Sequences, FiniteSets, TLC

VARIABLES
    \* GreenHydrogenSubsidy
    roles, projects, milestones, producerProjects, nextProjectId,
    nextMilestoneId, totalSubsidyPool, totalDisbursed, paused,
    balance,          \* address(this).balance
    ethReceived,      \* ether each address was sent by the ledger
    transferCount,    \* per milestone: transfers made in payment of it
    \* DataOracle
    oracleRoles, trustedSources, sourceTypes, dataPoints, sourceDataHistory,
    verificationThresholds, sourceReliabilityScore, oraclePaused,
    \* environment
    now,              \* block.timestamp
    contract          \* the contract this behaviour calls

ledgerVars == <<roles, projects, milestones, producerProjects, nextProjectId,
                nextMilestoneId, totalSubsidyPool, totalDisbursed, paused,
                balance, ethReceived, transferCount>>

oracleVars == <<oracleRoles, trustedSources, sourceTypes, dataPoints,
                sourceDataHistory, verificationThresholds,
                sourceReliabilityScore, oraclePaused>>

vars == <<ledgerVars, oracleVars, now, contract>>

\* ---------------------------------------------------------------- bounds
MaxProjects == 2
MaxMilestones == 2
MaxEntities == 3
MaxAmount == 1
MaxPool == 2
MaxValue == 1
MaxTime == 3
MaxHistory == 2

\* ------------------------------------------------------------- constants
StartTime == 1

Zero == "0x0"
Deployer == "deployer"
Government == "government"
Auditor == "auditor"
Oracle == "oracle"
Producer == "producer"
Other == "other"

Address == {Zero, Deployer, Government, Auditor, Oracle, Producer, Other}
Callers == Address \ {Zero}
\* verifyMilestone is exercised by these callers: the Auditor's verification
\* differs from the Oracle's only in the recorded verifiedBy, which no code reads
Verifiers == Callers \ {Auditor}

DEFAULT_ADMIN_ROLE == "DEFAULT_ADMIN_ROLE"
GOVERNMENT_ROLE == "GOVERNMENT_ROLE"
AUDITOR_ROLE == "AUDITOR_ROLE"
ORACLE_ROLE == "ORACLE_ROLE"
PRODUCER_ROLE == "PRODUCER_ROLE"
Roles == {DEFAULT_ADMIN_ROLE, GOVERNMENT_ROLE, AUDITOR_ROLE, ORACLE_ROLE, PRODUCER_ROLE}

ProjectStatus == {"Pending", "Active", "Completed", "Suspended", "Cancelled"}
MilestoneStatus == {"Pending", "Verified", "Failed", "Disputed"}

\* inputs of the calls
Amounts == 0..MaxAmount
Values == 0..MaxValue
Times == StartTime..MaxTime
Deadlines == StartTime..(MaxTime - 1)
Names == {"", "H2"}

\* ------------------------------------------------------- results of calls
Ok(s, ev) == [ok |-> TRUE, err |-> "", st |-> s, ev |-> ev]
Revert(s, msg) == [ok |-> FALSE, err |-> msg, st |-> s, ev |-> <<>>]

Cur == [roles |-> roles, projects |-> projects, milestones |-> milestones,
        producerProjects |-> producerProjects, nextProjectId |-> nextProjectId,
        nextMilestoneId |-> nextMilestoneId, totalSubsidyPool |-> totalSubsidyPool,
        totalDisbursed |-> totalDisbursed, balance |-> balance,
        ethReceived |-> ethReceived, transferCount |-> transferCount,
        paused |-> paused]

\* A call that leaves the storage as it was (a reverted call, or a no-op) is a
\* stuttering step, which [][Next]_vars admits anyway: only changes are steps.
Commit(s) ==
    /\ s # Cur
    /\ roles' = s.roles
    /\ projects' = s.projects
    /\ milestones' = s.milestones
    /\ producerProjects' = s.producerProjects
    /\ nextProjectId' = s.nextProjectId
    /\ nextMilestoneId' = s.nextMilestoneId
    /\ totalSubsidyPool' = s.totalSubsidyPool
    /\ totalDisbursed' = s.totalDisbursed
    /\ balance' = s.balance
    /\ ethReceived' = s.ethReceived
    /\ transferCount' = s.transferCount
    /\ paused' = s.paused
    /\ UNCHANGED <<oracleVars, now, contract>>

hasRole(s, role, account) == account \in s.roles[role]

projectExists(s, pid) == pid > 0 /\ pid < s.nextProjectId
milestoneExists(s, mid) == mid > 0 /\ mid < s.nextMilestoneId

\* payable(to).transfer(amount): moves ether out of the contract
transfer(s, to, amount) ==
    [s EXCEPT !.balance = @ - amount, !.ethReceived[to] = @ + amount]

\* ------------------------------------------------------------------ Init
LedgerInit ==
    /\ roles = [r \in Roles |->
                  CASE r = DEFAULT_ADMIN_ROLE -> {Deployer}
                    [] r = GOVERNMENT_ROLE -> {Deployer, Government}
                    [] r = AUDITOR_ROLE -> {Auditor}
                    [] r = ORACLE_ROLE -> {Oracle}
                    [] OTHER -> {}]
    /\ projects = <<>>
    /\ milestones = <<>>
    /\ producerProjects = [a \in Address |-> <<>>]
    /\ nextProjectId = 1
    /\ nextMilestoneId = 1
    /\ totalSubsidyPool = 0
    /\ totalDisbursed = 0
    /\ balance = 0
    /\ ethReceived = [a \in Address |-> 0]
    /\ transferCount = <<>>
    /\ paused = FALSE

\* ----------------------------------------------------- AccessControl
\* grantRole of the inherited AccessControl: the caller must hold the admin
\* role of `role`, which is DEFAULT_ADMIN_ROLE for every role here.
grantRole(s, sender, role, account) ==
    IF ~hasRole(s, DEFAULT_ADMIN_ROLE, sender)
      THEN Revert(s, "AccessControl: account is missing role")
    ELSE Ok([s EXCEPT !.roles[role] = @ \cup {account}], <<>>)

\* ------------------------------------------------------- registerProject
\* the project id is allocated before the pool check and kept when it fails
registerProject_AllocFirst(s, sender, producer, name, amount) ==
    IF ~hasRole(s, GOVERNMENT_ROLE, sender)
      THEN Revert(s, "Only government can perform this action")
    ELSE IF producer = Zero
      THEN Revert(s, "Invalid producer address")
    ELSE IF name = ""
      THEN Revert(s, "Project name cannot be empty")
    ELSE IF ~(amount > 0)
      THEN Revert(s, "Subsidy amount must be greater than 0")
    ELSE IF s.totalDisbursed > s.totalSubsidyPool
      THEN Revert(s, "SafeMath: subtraction overflow")
    ELSE IF ~(amount <= s.totalSubsidyPool - s.totalDisbursed)
      THEN Revert([s EXCEPT !.nextProjectId = @ + 1,
                            !.projects = Append(@, [producer |-> producer,
                                                    totalSubsidyAmount |-> 0,
                                                    disbursedAmount |-> 0,
                                                    status |-> "Cancelled",
                                                    milestoneIds |-> <<>>])],
                  "Insufficient subsidy pool")
    ELSE LET projectId == s.nextProjectId
             project == [producer |-> producer,
                         totalSubsidyAmount |-> amount,
                         disbursedAmount |-> 0,
                         status |-> "Pending",
                         milestoneIds |-> <<>>]
             s1 == [s EXCEPT !.nextProjectId = @ + 1,
                             !.projects = Append(@, project),
                             !.producerProjects[producer] = Append(@, projectId)]
             g == grantRole(s1, sender, PRODUCER_ROLE, producer)
         IN IF ~g.ok THEN Revert(s, g.err)
            ELSE Ok(g.st, <<[name |-> "ProjectRegistered", projectId |-> projectId,
                             producer |-> producer, totalSubsidy |-> amount]>>)

registerProject(s, sender, producer, name, amount) ==
    IF ~hasRole(s, GOVERNMENT_ROLE, sender)
      THEN Revert(s, "Only government can perform this action")
    ELSE IF producer = Zero
      THEN Revert(s, "Invalid producer address")
    ELSE IF name = ""
      THEN Revert(s, "Project name cannot be empty")
    ELSE IF ~(amount > 0)
      THEN Revert(s, "Subsidy amount must be greater than 0")
    ELSE IF s.totalDisbursed > s.totalSubsidyPool
      THEN Revert(s, "SafeMath: subtraction overflow")
    ELSE IF ~(amount <= s.totalSubsidyPool - s.totalDisbursed)
      THEN Revert(s, "Insufficient subsidy pool")
    ELSE LET projectId == s.nextProjectId
             project == [producer |-> producer,
                         totalSubsidyAmount |-> amount,
                         disbursedAmount |-> 0,
                         status |-> "Pending",
                         milestoneIds |-> <<>>]
             s1 == [s EXCEPT !.nextProjectId = @ + 1,
                             !.projects = Append(@, project),
                             !.producerProjects[producer] = Append(@, projectId)]
             g == grantRole(s1, sender, PRODUCER_ROLE, producer)
         IN IF ~g.ok THEN Revert(s, g.err)
            ELSE Ok(g.st, <<[name |-> "ProjectRegistered", projectId |-> projectId,
                             producer |-> producer, totalSubsidy |-> amount]>>)

\* ---------------------------------------------------------- addMilestone
\* the budget check (line 170)
withinBudget_Strict(s, pid, amount) ==
    s.projects[pid].disbursedAmount + amount < s.projects[pid].totalSubsidyAmount

withinBudget(s, pid, amount) ==
    s.projects[pid].disbursedAmount + amount <= s.projects[pid].totalSubsidyAmount

addMilestone(s, sender, pid, description, amount, target, deadline) ==
    IF ~hasRole(s, GOVERNMENT_ROLE, sender)
      THEN Revert(s, "Only government can perform this action")
    ELSE IF ~projectExists(s, pid)
      THEN Revert(s, "Project does not exist")
    ELSE IF description = ""
      THEN Revert(s, "Description cannot be empty")
    ELSE IF ~(amount > 0)
      THEN Revert(s, "Subsidy amount must be greater than 0")
    ELSE IF ~(target > 0)
      THEN Revert(s, "Target value must be greater than 0")
    ELSE IF ~(deadline > now)
      THEN Revert(s, "Deadline must be in the future")
    ELSE IF s.projects[pid].status \notin {"Pending", "Active"}
      THEN Revert(s, "Project not active")
    ELSE IF ~withinBudget(s, pid, amount)
      THEN Revert(s, "Exceeds project subsidy limit")
    ELSE LET milestoneId == s.nextMilestoneId
             milestone == [projectId |-> pid,
                           subsidyAmount |-> amount,
                           targetValue |-> target,
                           actualValue |-> 0,
                           deadline |-> deadline,
                           status |-> "Pending",
                           verifiedAt |-> 0,
                           verifiedBy |-> Zero,
                           paid |-> FALSE]
             wasPending == s.projects[pid].status = "Pending"
             s1 == [s EXCEPT !.nextMilestoneId = @ + 1,
                             !.milestones = Append(@, milestone),
                             !.transferCount = Append(@, 0),
                             !.projects[pid].milestoneIds = Append(@, milestoneId),
                             !.projects[pid].status =
                                 IF wasPending THEN "Active" ELSE @]
             evStatus == IF wasPending
                           THEN <<[name |-> "ProjectStatusChanged", projectId |-> pid,
                                   oldStatus |-> "Pending", newStatus |-> "Active"]>>
                           ELSE <<>>
         IN Ok(s1, evStatus \o <<[name |-> "MilestoneAdded", projectId |-> pid,
                                  milestoneId |-> milestoneId,
                                  subsidyAmount |-> amount]>>)

\* ------------------------------------------------ _checkProjectCompletion
\* returns the storage and the events; it has no revert
\* completes the project after any payment
_checkProjectCompletion_Always(s, pid) ==
    LET ids == s.projects[pid].milestoneIds
    IN IF Len(ids) > 0
         THEN Ok([s EXCEPT !.projects[pid].status = "Completed"],
                 <<[name |-> "ProjectStatusChanged", projectId |-> pid,
                    oldStatus |-> s.projects[pid].status,
                    newStatus |-> "Completed"]>>)
         ELSE Ok(s, <<>>)

_checkProjectCompletion(s, pid) ==
    LET ids == s.projects[pid].milestoneIds
        allMilestonesCompleted ==
            \A i \in 1..Len(ids) :
                /\ s.milestones[ids[i]].status = "Verified"
                /\ s.milestones[ids[i]].paid
    IN IF allMilestonesCompleted /\ Len(ids) > 0
         THEN Ok([s EXCEPT !.projects[pid].status = "Completed"],
                 <<[name |-> "ProjectStatusChanged", projectId |-> pid,
                    oldStatus |-> s.projects[pid].status,
                    newStatus |-> "Completed"]>>)
         ELSE Ok(s, <<>>)

\* ----------------------------------------------- _processMilestonePayment
\* the bookkeeping writes of a payment (lines 244-246)
recordPayment_SkipTotal(s, mid, paymentAmount) ==
    LET pid == s.milestones[mid].projectId
    IN [s EXCEPT !.milestones[mid].paid = TRUE,
                 !.projects[pid].disbursedAmount = @ + paymentAmount]

recordPayment_SkipPaid(s, mid, paymentAmount) ==
    LET pid == s.milestones[mid].projectId
    IN [s EXCEPT !.projects[pid].disbursedAmount = @ + paymentAmount,
                 !.totalDisbursed = @ + paymentAmount]

recordPayment(s, mid, paymentAmount) ==
    LET pid == s.milestones[mid].projectId
    IN [s EXCEPT !.milestones[mid].paid = TRUE,
                 !.projects[pid].disbursedAmount = @ + paymentAmount,
                 !.totalDisbursed = @ + paymentAmount]

\* the project status check of a payment (line 239)
projectActive_NotCancelled(s, pid) == s.projects[pid].status # "Cancelled"

projectActive_Any(s, pid) == TRUE

projectActive(s, pid) == s.projects[pid].status = "Active"

\* the storage while the producer receives the transfer of line 249: the
\* bookkeeping of lines 244-246 is written, the ether has left the contract,
\* the event and the completion check are still to come
atTransfer_InteractionFirst(s, mid) ==
    LET paymentAmount == s.milestones[mid].subsidyAmount
        producer == s.projects[s.milestones[mid].projectId].producer
    IN [transfer(s, producer, paymentAmount) EXCEPT !.transferCount[mid] = @ + 1]

atTransfer(s, mid) ==
    LET paymentAmount == s.milestones[mid].subsidyAmount
        producer == s.projects[s.milestones[mid].projectId].producer
    IN [transfer(recordPayment(s, mid, paymentAmount), producer, paymentAmount)
           EXCEPT !.transferCount[mid] = @ + 1]

_processMilestonePayment(s, mid) ==
    LET milestone == s.milestones[mid]
        pid == milestone.projectId
        project == s.projects[pid]
        paymentAmount == milestone.subsidyAmount
    IN IF milestone.status # "Verified"
         THEN Revert(s, "Milestone not verified")
       ELSE IF milestone.paid
         THEN Revert(s, "Already paid")
       ELSE IF ~projectActive(s, pid)
         THEN Revert(s, "Project not active")
       ELSE IF ~(s.balance >= paymentAmount)
         THEN Revert(s, "Insufficient contract balance")
       ELSE LET s2 == atTransfer(s, mid)
                c == _checkProjectCompletion(s2, pid)
            IN Ok(c.st, <<[name |-> "SubsidyDisbursed", projectId |-> pid,
                           milestoneId |-> mid, recipient |-> project.producer,
                           amount |-> paymentAmount]>> \o c.ev)

\* ------------------------------------------------------- verifyMilestone
\* payment failure swallowed: the milestone stays Verified and unpaid
verifyMilestone_Decoupled(s, sender, mid, actualValue, success) ==
    IF ~milestoneExists(s, mid)
      THEN Revert(s, "Milestone does not exist")
    ELSE IF ~(hasRole(s, ORACLE_ROLE, sender) \/ hasRole(s, AUDITOR_ROLE, sender))
      THEN Revert(s, "Unauthorized verifier")
    ELSE IF s.milestones[mid].status # "Pending"
      THEN Revert(s, "Milestone already processed")
    ELSE IF ~(now <= s.milestones[mid].deadline)
      THEN Revert(s, "Milestone deadline passed")
    ELSE LET s1 == [s EXCEPT !.milestones[mid].actualValue = actualValue,
                             !.milestones[mid].verifiedAt = now,
                             !.milestones[mid].verifiedBy = sender]
             ev == <<[name |-> "MilestoneVerified", milestoneId |-> mid,
                      actualValue |-> actualValue, verifier |-> sender]>>
         IN IF success /\ actualValue >= s.milestones[mid].targetValue
              THEN LET s2 == [s1 EXCEPT !.milestones[mid].status = "Verified"]
                       p == _processMilestonePayment(s2, mid)
                   IN IF ~p.ok THEN Ok(s2, ev)
                      ELSE Ok(p.st, p.ev \o ev)
              ELSE Ok([s1 EXCEPT !.milestones[mid].status = "Failed"], ev)

\* payment failure reported, the writes made before it kept
verifyMilestone_PartialRevert(s, sender, mid, actualValue, success) ==
    IF ~milestoneExists(s, mid)
      THEN Revert(s, "Milestone does not exist")
    ELSE IF ~(hasRole(s, ORACLE_ROLE, sender) \/ hasRole(s, AUDITOR_ROLE, sender))
      THEN Revert(s, "Unauthorized verifier")
    ELSE IF s.milestones[mid].status # "Pending"
      THEN Revert(s, "Milestone already processed")
    ELSE IF ~(now <= s.milestones[mid].deadline)
      THEN Revert(s, "Milestone deadline passed")
    ELSE LET s1 == [s EXCEPT !.milestones[mid].actualValue = actualValue,
                             !.milestones[mid].verifiedAt = now,
                             !.milestones[mid].verifiedBy = sender]
             ev == <<[name |-> "MilestoneVerified", milestoneId |-> mid,
                      actualValue |-> actualValue, verifier |-> sender]>>
         IN IF success /\ actualValue >= s.milestones[mid].targetValue
              THEN LET s2 == [s1 EXCEPT !.milestones[mid].status = "Verified"]
                       p == _processMilestonePayment(s2, mid)
                   IN IF ~p.ok THEN Revert(s2, p.err)
                      ELSE Ok(p.st, p.ev \o ev)
              ELSE Ok([s1 EXCEPT !.milestones[mid].status = "Failed"], ev)

\* the deadline check (line 214)
beforeDeadline_Open(s, mid) == TRUE

beforeDeadline(s, mid) == now <= s.milestones[mid].deadline

\* the condition of the Verified branch (line 220)
targetMet_IgnoreValue(s, mid, actualValue, success) == success

targetMet(s, mid, actualValue, success) ==
    success /\ actualValue >= s.milestones[mid].targetValue

verifyMilestone(s, sender, mid, actualValue, success) ==
    IF ~milestoneExists(s, mid)
      THEN Revert(s, "Milestone does not exist")
    ELSE IF ~(hasRole(s, ORACLE_ROLE, sender) \/ hasRole(s, AUDITOR_ROLE, sender))
      THEN Revert(s, "Unauthorized verifier")
    ELSE IF s.milestones[mid].status # "Pending"
      THEN Revert(s, "Milestone already processed")
    ELSE IF ~beforeDeadline(s, mid)
      THEN Revert(s, "Milestone deadline passed")
    ELSE LET s1 == [s EXCEPT !.milestones[mid].actualValue = actualValue,
                             !.milestones[mid].verifiedAt = now,
                             !.milestones[mid].verifiedBy = sender]
             ev == <<[name |-> "MilestoneVerified", milestoneId |-> mid,
                      actualValue |-> actualValue, verifier |-> sender]>>
         IN IF targetMet(s, mid, actualValue, success)
              THEN LET s2 == [s1 EXCEPT !.milestones[mid].status = "Verified"]
                       p == _processMilestonePayment(s2, mid)
                   IN IF ~p.ok THEN Revert(s, p.err)
                      ELSE Ok(p.st, p.ev \o ev)
              ELSE Ok([s1 EXCEPT !.milestones[mid].status = "Failed"], ev)

\* --------------------------------------------------- updateProjectStatus
\* no role check
updateProjectStatus_Ungated(s, sender, pid, newStatus) ==
    IF ~projectExists(s, pid)
      THEN Revert(s, "Project does not exist")
    ELSE Ok([s EXCEPT !.projects[pid].status = newStatus],
            <<[name |-> "ProjectStatusChanged", projectId |-> pid,
               oldStatus |-> s.projects[pid].status, newStatus |-> newStatus]>>)

\* a Completed or Cancelled project is final
updateProjectStatus_Final(s, sender, pid, newStatus) ==
    IF ~hasRole(s, GOVERNMENT_ROLE, sender)
      THEN Revert(s, "Only government can perform this action")
    ELSE IF ~projectExists(s, pid)
      THEN Revert(s, "Project does not exist")
    ELSE IF s.projects[pid].status \in {"Completed", "Cancelled"}
      THEN Revert(s, "Invalid state transition")
    ELSE Ok([s EXCEPT !.projects[pid].status = newStatus],
            <<[name |-> "ProjectStatusChanged", projectId |-> pid,
               oldStatus |-> s.projects[pid].status, newStatus |-> newStatus]>>)

updateProjectStatus(s, sender, pid, newStatus) ==
    IF ~hasRole(s, GOVERNMENT_ROLE, sender)
      THEN Revert(s, "Only government can perform this action")
    ELSE IF ~projectExists(s, pid)
      THEN Revert(s, "Project does not exist")
    ELSE Ok([s EXCEPT !.projects[pid].status = newStatus],
            <<[name |-> "ProjectStatusChanged", projectId |-> pid,
               oldStatus |-> s.projects[pid].status, newStatus |-> newStatus]>>)

\* ------------------------------------------------------ disputeMilestone
\* any holder of the Producer role may dispute
disputeMilestone_AnyProducer(s, sender, mid) ==
    IF ~milestoneExists(s, mid)
      THEN Revert(s, "Milestone does not exist")
    ELSE IF ~(hasRole(s, PRODUCER_ROLE, sender) \/ hasRole(s, GOVERNMENT_ROLE, sender))
      THEN Revert(s, "Unauthorized to dispute")
    ELSE IF s.milestones[mid].status \notin {"Failed", "Verified"}
      THEN Revert(s, "Cannot dispute pending milestone")
    ELSE Ok([s EXCEPT !.milestones[mid].status = "Disputed"], <<>>)

disputeMilestone(s, sender, mid) ==
    IF ~milestoneExists(s, mid)
      THEN Revert(s, "Milestone does not exist")
    ELSE IF ~(sender = s.projects[s.milestones[mid].projectId].producer
              \/ hasRole(s, GOVERNMENT_ROLE, sender))
      THEN Revert(s, "Unauthorized to dispute")
    ELSE IF s.milestones[mid].status \notin {"Failed", "Verified"}
      THEN Revert(s, "Cannot dispute pending milestone")
    ELSE Ok([s EXCEPT !.milestones[mid].status = "Disputed"], <<>>)

\* -------------------------------------------------------- resolveDispute
\* the approve=false branch (line 319)
rejectDispute_Reopen(s, mid) ==
    [s EXCEPT !.milestones[mid].status = "Pending"]

rejectDispute_ResetPaid(s, mid) ==
    [s EXCEPT !.milestones[mid].status = "Failed",
              !.milestones[mid].paid = FALSE]

rejectDispute_Clawback(s, mid) ==
    LET m == s.milestones[mid]
    IN IF m.paid
         THEN [s EXCEPT !.milestones[mid].status = "Failed",
                        !.projects[m.projectId].disbursedAmount = @ - m.subsidyAmount,
                        !.totalDisbursed = @ - m.subsidyAmount]
         ELSE [s EXCEPT !.milestones[mid].status = "Failed"]

rejectDispute(s, mid) ==
    [s EXCEPT !.milestones[mid].status = "Failed"]

\* approval runs the payment whether or not the milestone is paid
resolveDispute_AlwaysPay(s, sender, mid, approve) ==
    IF ~hasRole(s, AUDITOR_ROLE, sender)
      THEN Revert(s, "Only auditor can perform this action")
    ELSE IF ~milestoneExists(s, mid)
      THEN Revert(s, "Milestone does not exist")
    ELSE IF s.milestones[mid].status # "Disputed"
      THEN Revert(s, "Milestone not disputed")
    ELSE IF approve
      THEN LET s1 == [s EXCEPT !.milestones[mid].status = "Verified"]
               p == _processMilestonePayment(s1, mid)
           IN IF ~p.ok THEN Revert(s, p.err) ELSE Ok(p.st, p.ev)
    ELSE Ok(rejectDispute(s, mid), <<>>)

resolveDispute(s, sender, mid, approve) ==
    IF ~hasRole(s, AUDITOR_ROLE, sender)
      THEN Revert(s, "Only auditor can perform this action")
    ELSE IF ~milestoneExists(s, mid)
      THEN Revert(s, "Milestone does not exist")
    ELSE IF s.milestones[mid].status # "Disputed"
      THEN Revert(s, "Milestone not disputed")
    ELSE IF approve
      THEN LET s1 == [s EXCEPT !.milestones[mid].status = "Verified"]
           IN IF ~s1.milestones[mid].paid
                THEN LET p == _processMilestonePayment(s1, mid)
                     IN IF ~p.ok THEN Revert(s, p.err) ELSE Ok(p.st, p.ev)
                ELSE Ok(s1, <<>>)
    ELSE Ok(rejectDispute(s, mid), <<>>)

\* ----------------------------------------------------- emergencyWithdraw
emergencyWithdraw(s, sender, amount, recipient) ==
    IF ~hasRole(s, GOVERNMENT_ROLE, sender)
      THEN Revert(s, "Only government can perform this action")
    ELSE IF ~(amount <= s.balance)
      THEN Revert(s, "Insufficient balance")
    ELSE IF recipient = Zero
      THEN Revert(s, "Invalid recipient")
    ELSE Ok(transfer(s, recipient, amount),
            <<[name |-> "FundsWithdrawn", amount |-> amount,
               recipient |-> recipient]>>)

\* -------------------------------------------------------- pause / unpause
pause(s, sender) ==
    IF ~hasRole(s, GOVERNMENT_ROLE, sender)
      THEN Revert(s, "Only government can perform this action")
    ELSE IF s.paused
      THEN Revert(s, "Pausable: paused")
    ELSE Ok([s EXCEPT !.paused = TRUE], <<[name |-> "Paused", account |-> sender]>>)

unpause(s, sender) ==
    IF ~hasRole(s, GOVERNMENT_ROLE, sender)
      THEN Revert(s, "Only government can perform this action")
    ELSE IF ~s.paused
      THEN Revert(s, "Pausable: not paused")
    ELSE Ok([s EXCEPT !.paused = FALSE], <<[name |-> "Unpaused", account |-> sender]>>)

\* --------------------------------------------------------- view functions
getContractBalance(s) == s.balance
getAvailableSubsidy(s) == s.totalSubsidyPool - s.totalDisbursed

\* -------------------------------------------------------------- addFunds
addFunds(s, sender, value) ==
    IF ~hasRole(s, GOVERNMENT_ROLE, sender)
      THEN Revert(s, "Only government can perform this action")
    ELSE IF ~(value > 0)
      THEN Revert(s, "Amount must be greater than 0")
    ELSE LET s1 == [s EXCEPT !.balance = @ + value,
                             !.totalSubsidyPool = @ + value]
         IN Ok(s1, <<[name |-> "FundsAdded", amount |-> value,
                      newTotal |-> s1.totalSubsidyPool]>>)

receive(s, sender, value) ==
    LET s1 == [s EXCEPT !.balance = @ + value,
                        !.totalSubsidyPool = @ + value]
    IN Ok(s1, <<[name |-> "FundsAdded", amount |-> value,
                 newTotal |-> s1.totalSubsidyPool]>>)

\* ======================================================================
\* DataOracle (src/unnamed/part_007)
\* ======================================================================
ORACLE_OPERATOR_ROLE == "ORACLE_OPERATOR_ROLE"
DATA_PROVIDER_ROLE == "DATA_PROVIDER_ROLE"
OracleRoles == {DEFAULT_ADMIN_ROLE, ORACLE_OPERATOR_ROLE, DATA_PROVIDER_ROLE}

DataSourceType == {"IoTDevice", "GovernmentDB", "ThirdPartyVerifier", "Manual"}
\* the value a deleted or never-written enum slot reads as
DefaultSourceType == "IoTDevice"

IoTDeviceThreshold == 85
GovernmentDBThreshold == 95
ThirdPartyVerifierThreshold == 90
ManualThreshold == 75
MaxScore == 100

\* inputs of the oracle calls
Sources == {"hydrogen-meter-001", "government-energy-db"}
SourceTypeInputs == {"IoTDevice", "Manual"}
Scores == {MaxScore, MaxScore + 1}
Metadata == {"proof"}

\* keccak256(abi.encodePacked(_source, _value, block.timestamp, msg.sender)):
\* the id is a function of exactly these four, and injective on them here
DataId(source, value, timestamp, sender) == <<source, value, timestamp, sender>>

\* a mapping slot that was never written
NoDataPoint == [value |-> 0, timestamp |-> 0, source |-> "",
                sourceType |-> DefaultSourceType, verifier |-> Zero,
                isVerified |-> FALSE, metadata |-> ""]

OCur == [roles |-> oracleRoles, trustedSources |-> trustedSources,
         sourceTypes |-> sourceTypes, dataPoints |-> dataPoints,
         sourceDataHistory |-> sourceDataHistory,
         verificationThresholds |-> verificationThresholds,
         sourceReliabilityScore |-> sourceReliabilityScore,
         paused |-> oraclePaused]

OCommit(o) ==
    /\ o # OCur
    /\ oracleRoles' = o.roles
    /\ trustedSources' = o.trustedSources
    /\ sourceTypes' = o.sourceTypes
    /\ dataPoints' = o.dataPoints
    /\ sourceDataHistory' = o.sourceDataHistory
    /\ verificationThresholds' = o.verificationThresholds
    /\ sourceReliabilityScore' = o.sourceReliabilityScore
    /\ oraclePaused' = o.paused
    /\ UNCHANGED <<ledgerVars, now, contract>>

\* dataPoints[id] of a Solidity mapping: the zero value when never written
dataPointAt(o, id) ==
    IF id \in DOMAIN o.dataPoints THEN o.dataPoints[id] ELSE NoDataPoint

OracleInit ==
    /\ oracleRoles = [r \in OracleRoles |->
                        CASE r = DEFAULT_ADMIN_ROLE -> {Deployer}
                          [] r = ORACLE_OPERATOR_ROLE -> {Deployer, Auditor}
                          [] OTHER -> {Oracle}]
    /\ trustedSources = [x \in Sources |-> FALSE]
    /\ sourceTypes = [x \in Sources |-> DefaultSourceType]
    /\ dataPoints = << >>
    /\ sourceDataHistory = [x \in Sources |-> <<>>]
    /\ verificationThresholds =
          [ty \in DataSourceType |->
              CASE ty = "IoTDevice" -> IoTDeviceThreshold
                [] ty = "GovernmentDB" -> GovernmentDBThreshold
                [] ty = "ThirdPartyVerifier" -> ThirdPartyVerifierThreshold
                [] OTHER -> ManualThreshold]
    /\ sourceReliabilityScore = [x \in Sources |-> 0]
    /\ oraclePaused = FALSE

onlyRoleMsg == "AccessControl: account is missing role"

addTrustedSource_KeepScore(o, sender, source, sourceType) ==
    IF ~hasRole(o, ORACLE_OPERATOR_ROLE, sender)
      THEN Revert(o, onlyRoleMsg)
    ELSE Ok([o EXCEPT !.trustedSources[source] = TRUE,
                      !.sourceTypes[source] = sourceType,
                      !.sourceReliabilityScore[source] =
                          IF o.trustedSources[source] THEN @
                          ELSE o.verificationThresholds[sourceType]],
            <<[name |-> "TrustedSourceAdded", source |-> source,
               sourceType |-> sourceType]>>)

addTrustedSource(o, sender, source, sourceType) ==
    IF ~hasRole(o, ORACLE_OPERATOR_ROLE, sender)
      THEN Revert(o, onlyRoleMsg)
    ELSE Ok([o EXCEPT !.trustedSources[source] = TRUE,
                      !.sourceTypes[source] = sourceType,
                      !.sourceReliabilityScore[source] =
                          o.verificationThresholds[sourceType]],
            <<[name |-> "TrustedSourceAdded", source |-> source,
               sourceType |-> sourceType]>>)

removeTrustedSource(o, sender, source) ==
    IF ~hasRole(o, ORACLE_OPERATOR_ROLE, sender)
      THEN Revert(o, onlyRoleMsg)
    ELSE Ok([o EXCEPT !.trustedSources[source] = FALSE,
                      !.sourceTypes[source] = DefaultSourceType,
                      !.sourceReliabilityScore[source] = 0],
            <<[name |-> "TrustedSourceRemoved", source |-> source]>>)

submitData_PauseFirst(o, sender, source, value, metadata) ==
    IF ~hasRole(o, DATA_PROVIDER_ROLE, sender)
      THEN Revert(o, onlyRoleMsg)
    ELSE IF o.paused
      THEN Revert(o, "Pausable: paused")
    ELSE IF ~o.trustedSources[source]
      THEN Revert(o, "Source not trusted")
    ELSE LET dataId == DataId(source, value, now, sender)
             dp == [value |-> value, timestamp |-> now, source |-> source,
                    sourceType |-> o.sourceTypes[source], verifier |-> sender,
                    isVerified |-> FALSE, metadata |-> metadata]
             points == [id \in DOMAIN o.dataPoints \cup {dataId} |->
                           IF id = dataId THEN dp ELSE o.dataPoints[id]]
         IN Ok([o EXCEPT !.dataPoints = points,
                         !.sourceDataHistory[source] = Append(@, dataId)],
               <<[name |-> "DataSubmitted", dataId |-> dataId, source |-> source,
                  value |-> value, provider |-> sender]>>)

submitData(o, sender, source, value, metadata) ==
    IF ~hasRole(o, DATA_PROVIDER_ROLE, sender)
      THEN Revert(o, onlyRoleMsg)
    ELSE IF ~o.trustedSources[source]
      THEN Revert(o, "Source not trusted")
    ELSE IF o.paused
      THEN Revert(o, "Pausable: paused")
    ELSE LET dataId == DataId(source, value, now, sender)
             dp == [value |-> value, timestamp |-> now, source |-> source,
                    sourceType |-> o.sourceTypes[source], verifier |-> sender,
                    isVerified |-> FALSE, metadata |-> metadata]
             points == [id \in DOMAIN o.dataPoints \cup {dataId} |->
                           IF id = dataId THEN dp ELSE o.dataPoints[id]]
         IN Ok([o EXCEPT !.dataPoints = points,
                         !.sourceDataHistory[source] = Append(@, dataId)],
               <<[name |-> "DataSubmitted", dataId |-> dataId, source |-> source,
                  value |-> value, provider |-> sender]>>)

verifyData_Sticky(o, sender, dataId, verified) ==
    IF ~hasRole(o, ORACLE_OPERATOR_ROLE, sender)
      THEN Revert(o, onlyRoleMsg)
    ELSE IF ~(dataPointAt(o, dataId).timestamp > 0)
      THEN Revert(o, "Data point does not exist")
    ELSE Ok([o EXCEPT !.dataPoints[dataId].isVerified = @ \/ verified,
                      !.dataPoints[dataId].verifier = sender],
            <<[name |-> "DataVerified", dataId |-> dataId, verified |-> verified,
               verifier |-> sender]>>)

verifyData(o, sender, dataId, verified) ==
    IF ~hasRole(o, ORACLE_OPERATOR_ROLE, sender)
      THEN Revert(o, onlyRoleMsg)
    ELSE IF ~(dataPointAt(o, dataId).timestamp > 0)
      THEN Revert(o, "Data point does not exist")
    ELSE Ok([o EXCEPT !.dataPoints[dataId].isVerified = verified,
                      !.dataPoints[dataId].verifier = sender],
            <<[name |-> "DataVerified", dataId |-> dataId, verified |-> verified,
               verifier |-> sender]>>)

updateVerificationThreshold_Unbounded(o, sender, sourceType, newThreshold) ==
    IF ~hasRole(o, ORACLE_OPERATOR_ROLE, sender)
      THEN Revert(o, onlyRoleMsg)
    ELSE Ok([o EXCEPT !.verificationThresholds[sourceType] = newThreshold],
            <<[name |-> "VerificationThresholdUpdated", sourceType |-> sourceType,
               newThreshold |-> newThreshold]>>)

updateVerificationThreshold(o, sender, sourceType, newThreshold) ==
    IF ~hasRole(o, ORACLE_OPERATOR_ROLE, sender)
      THEN Revert(o, onlyRoleMsg)
    ELSE IF ~(newThreshold <= MaxScore)
      THEN Revert(o, "Threshold cannot exceed 100")
    ELSE Ok([o EXCEPT !.verificationThresholds[sourceType] = newThreshold],
            <<[name |-> "VerificationThresholdUpdated", sourceType |-> sourceType,
               newThreshold |-> newThreshold]>>)

updateSourceReliability(o, sender, source, newScore) ==
    IF ~hasRole(o, ORACLE_OPERATOR_ROLE, sender)
      THEN Revert(o, onlyRoleMsg)
    ELSE IF ~o.trustedSources[source]
      THEN Revert(o, "Source not trusted")
    ELSE IF ~(newScore <= MaxScore)
      THEN Revert(o, "Score cannot exceed 100")
    ELSE Ok([o EXCEPT !.sourceReliabilityScore[source] = newScore], <<>>)

oraclePause(o, sender) ==
    IF ~hasRole(o, ORACLE_OPERATOR_ROLE, sender)
      THEN Revert(o, onlyRoleMsg)
    ELSE IF o.paused
      THEN Revert(o, "Pausable: paused")
    ELSE Ok([o EXCEPT !.paused = TRUE], <<[name |-> "Paused", account |-> sender]>>)

oracleUnpause(o, sender) ==
    IF ~hasRole(o, ORACLE_OPERATOR_ROLE, sender)
      THEN Revert(o, onlyRoleMsg)
    ELSE IF ~o.paused
      THEN Revert(o, "Pausable: not paused")
    ELSE Ok([o EXCEPT !.paused = FALSE], <<[name |-> "Unpaused", account |-> sender]>>)

\* bytes32(0), the content of a freshly allocated bytes32[] slot
ZeroDataId == DataId("", 0, 0, Zero)

validDataPoint_Unverified(dp, fromTimestamp, toTimestamp) ==
    dp.timestamp >= fromTimestamp /\ dp.timestamp <= toTimestamp

validDataPoint_Exclusive(dp, fromTimestamp, toTimestamp) ==
    dp.isVerified /\ dp.timestamp >= fromTimestamp /\ dp.timestamp < toTimestamp

\* the filter both loops of getVerifiedData apply
validDataPoint(dp, fromTimestamp, toTimestamp) ==
    dp.isVerified /\ dp.timestamp >= fromTimestamp /\ dp.timestamp <= toTimestamp

\* first loop: for (i = 0; i < sourceData.length; i++) if (...) validCount++
RECURSIVE countValid(_, _, _, _, _, _)
countValid(o, sourceData, fromTimestamp, toTimestamp, i, validCount) ==
    IF ~(i <= Len(sourceData)) THEN validCount
    ELSE countValid(o, sourceData, fromTimestamp, toTimestamp, i + 1,
                    IF validDataPoint(dataPointAt(o, sourceData[i]),
                                      fromTimestamp, toTimestamp)
                      THEN validCount + 1 ELSE validCount)

\* second loop: writes the id and the value at index and advances index;
\* arrays are 1-based here, so slot index of the code is slot index + 1
RECURSIVE fillValid(_, _, _, _, _, _, _)
fillValid(o, sourceData, fromTimestamp, toTimestamp, i, index, out) ==
    IF ~(i <= Len(sourceData)) THEN out
    ELSE LET dp == dataPointAt(o, sourceData[i])
         IN IF validDataPoint(dp, fromTimestamp, toTimestamp)
              THEN fillValid(o, sourceData, fromTimestamp, toTimestamp, i + 1,
                             index + 1,
                             [validDataIds |->
                                 [out.validDataIds EXCEPT ![index + 1] = sourceData[i]],
                              values |->
                                 [out.values EXCEPT ![index + 1] = dp.value]])
              ELSE fillValid(o, sourceData, fromTimestamp, toTimestamp, i + 1,
                             index, out)

getVerifiedData(o, source, fromTimestamp, toTimestamp) ==
    LET sourceData == o.sourceDataHistory[source]
        validCount == countValid(o, sourceData, fromTimestamp, toTimestamp, 1, 0)
    IN fillValid(o, sourceData, fromTimestamp, toTimestamp, 1, 0,
                 [validDataIds |-> [k \in 1..validCount |-> ZeroDataId],
                  values |-> [k \in 1..validCount |-> 0]])

\* for (i = 0; i < values.length; i++) totalValue += values[i]
RECURSIVE sumValues(_, _, _)
sumValues(values, i, totalValue) ==
    IF ~(i <= Len(values)) THEN totalValue
    ELSE sumValues(values, i + 1, totalValue + values[i])

getAggregateValue(o, source, fromTimestamp, toTimestamp) ==
    LET res == getVerifiedData(o, source, fromTimestamp, toTimestamp)
    IN [totalValue |-> sumValues(res.values, 1, 0),
        dataPointCount |-> Len(res.validDataIds)]

\* ======================================================================
\* Actions.  Each draws the call's inputs from a small set and commits the
\* call's result.  The sets hold the inputs whose calls can change the
\* storage, and some that cannot; what a call does on every other input is
\* stated about the operators above, at every reachable state.
\* ======================================================================
GovCallers == {Deployer, Government, Other}
DisputeCallers == {Deployer, Producer, Other}
Producers == {Zero, Producer, Other}

onLedger == contract = "GreenHydrogenSubsidy"
onOracle == contract = "DataOracle"

AddFunds ==
    \E sender \in GovCallers, value \in 1..MaxAmount :
        /\ onLedger
        /\ totalSubsidyPool + value <= MaxPool
        /\ \E r \in {addFunds(Cur, sender, value)} : Commit(r.st)

Receive ==
    \E sender \in {Other}, value \in 1..MaxAmount :
        /\ onLedger
        /\ totalSubsidyPool + value <= MaxPool
        /\ \E r \in {receive(Cur, sender, value)} : Commit(r.st)

RegisterProject ==
    \E sender \in GovCallers, producer \in Producers, amount \in 1..MaxAmount :
        /\ onLedger
        /\ nextProjectId <= MaxProjects
        /\ (nextProjectId - 1) + (nextMilestoneId - 1) < MaxEntities
        /\ \E r \in {registerProject(Cur, sender, producer, "H2", amount)} :
              Commit(r.st)

AddMilestone ==
    \E sender \in GovCallers, pid \in 1..MaxProjects, amount \in 1..MaxAmount,
       target \in 1..MaxValue, deadline \in Deadlines :
        /\ onLedger
        /\ nextMilestoneId <= MaxMilestones
        /\ (nextProjectId - 1) + (nextMilestoneId - 1) < MaxEntities
        /\ \E r \in {addMilestone(Cur, sender, pid, "H2", amount, target, deadline)} :
              Commit(r.st)

VerifyMilestone ==
    \E sender \in Verifiers, mid \in 1..MaxMilestones, actualValue \in Values,
       success \in BOOLEAN :
        /\ onLedger
        /\ \E r \in {verifyMilestone(Cur, sender, mid, actualValue, success)} :
              Commit(r.st)

UpdateProjectStatus ==
    \E sender \in GovCallers, pid \in 1..MaxProjects, newStatus \in ProjectStatus :
        /\ onLedger
        /\ \E r \in {updateProjectStatus(Cur, sender, pid, newStatus)} : Commit(r.st)

DisputeMilestone ==
    \E sender \in DisputeCallers, mid \in 1..MaxMilestones :
        /\ onLedger
        /\ \E r \in {disputeMilestone(Cur, sender, mid)} : Commit(r.st)

ResolveDispute ==
    \E sender \in {Auditor, Oracle}, mid \in 1..MaxMilestones, approve \in BOOLEAN :
        /\ onLedger
        /\ \E r \in {resolveDispute(Cur, sender, mid, approve)} : Commit(r.st)

EmergencyWithdraw ==
    \E sender \in GovCallers, amount \in 1..MaxAmount, recipient \in {Zero, Deployer} :
        /\ onLedger
        /\ \E r \in {emergencyWithdraw(Cur, sender, amount, recipient)} : Commit(r.st)

Pause ==
    \E sender \in GovCallers :
        /\ onLedger
        /\ \E r \in {pause(Cur, sender)} : Commit(r.st)

Unpause ==
    \E sender \in GovCallers :
        /\ onLedger
        /\ \E r \in {unpause(Cur, sender)} : Commit(r.st)

\* ---- DataOracle
OperatorCallers == {Deployer, Oracle}
ProviderCallers == {Oracle, Other}

AddTrustedSource ==
    \E sender \in OperatorCallers, source \in Sources, sourceType \in SourceTypeInputs :
        /\ onOracle
        /\ \E r \in {addTrustedSource(OCur, sender, source, sourceType)} : OCommit(r.st)

RemoveTrustedSource ==
    \E sender \in OperatorCallers, source \in Sources :
        /\ onOracle
        /\ \E r \in {removeTrustedSource(OCur, sender, source)} : OCommit(r.st)

SubmitData ==
    \E sender \in ProviderCallers, source \in Sources, value \in 1..MaxValue,
       metadata \in Metadata :
        /\ onOracle
        /\ \A other \in Sources :
              Len(sourceDataHistory[source]) + Len(sourceDataHistory[other]) < MaxHistory
        /\ \E r \in {submitData(OCur, sender, source, value, metadata)} : OCommit(r.st)

VerifyData ==
    \E sender \in OperatorCallers, dataId \in DOMAIN dataPoints, verified \in BOOLEAN :
        /\ onOracle
        /\ \E r \in {verifyData(OCur, sender, dataId, verified)} : OCommit(r.st)

UpdateVerificationThreshold ==
    \E sender \in OperatorCallers, sourceType \in SourceTypeInputs, newThreshold \in Scores :
        /\ onOracle
        /\ \E r \in {updateVerificationThreshold(OCur, sender, sourceType, newThreshold)} :
              OCommit(r.st)

UpdateSourceReliability ==
    \E sender \in OperatorCallers, source \in Sources, newScore \in Scores :
        /\ onOracle
        /\ \E r \in {updateSourceReliability(OCur, sender, source, newScore)} :
              OCommit(r.st)

OraclePause ==
    \E sender \in OperatorCallers :
        /\ onOracle
        /\ \E r \in {oraclePause(OCur, sender)} : OCommit(r.st)

OracleUnpause ==
    \E sender \in OperatorCallers :
        /\ onOracle
        /\ \E r \in {oracleUnpause(OCur, sender)} : OCommit(r.st)

\* ---- environment: time passes between blocks
Tick ==
    /\ now < MaxTime
    /\ now' = now + 1
    /\ UNCHANGED <<ledgerVars, oracleVars, contract>>

LedgerNext ==
    \/ AddFunds
    \/ Receive
    \/ RegisterProject
    \/ AddMilestone
    \/ VerifyMilestone
    \/ UpdateProjectStatus
    \/ DisputeMilestone
    \/ ResolveDispute
    \/ EmergencyWithdraw
    \/ Pause
    \/ Unpause
    \/ Tick

OracleNext ==
    \/ AddTrustedSource
    \/ RemoveTrustedSource
    \/ SubmitData
    \/ VerifyData
    \/ UpdateVerificationThreshold
    \/ UpdateSourceReliability
    \/ OraclePause
    \/ OracleUnpause
    \/ Tick

Next ==
    \/ LedgerNext
    \/ OracleNext

\* the state after deployment (constructors and the role grants of
\* contracts/scripts/deploy.js), calling contract c
Deployed(c) ==
    /\ LedgerInit
    /\ OracleInit
    /\ now = StartTime
    /\ contract = c

Init == \E c \in {"GreenHydrogenSubsidy", "DataOracle"} : Deployed(c)
InitLedger == Deployed("GreenHydrogenSubsidy")
InitOracle == Deployed("DataOracle")

\* both contracts
Spec == Init /\ [][Next]_vars
\* the ledger alone
LedgerSpec == InitLedger /\ [][LedgerNext]_vars
\* the oracle alone
OracleSpec == InitOracle /\ [][OracleNext]_vars

\* ======================================================================
\* Properties of the ledger
\* ======================================================================
MilestoneIds == 1..(nextMilestoneId - 1)
ProjectIds == 1..(nextProjectId - 1)

RECURSIVE PaidSum(_, _)
\* the sum of subsidyAmount over the paid milestones among ids
PaidSum(ms, ids) ==
    IF ids = {} THEN 0
    ELSE LET m == CHOOSE x \in ids : TRUE
         IN (IF ms[m].paid THEN ms[m].subsidyAmount ELSE 0) + PaidSum(ms, ids \ {m})

MilestonesOf(pid) == {m \in MilestoneIds : milestones[m].projectId = pid}

\* C1 Conservation: in every reachable state totalDisbursed is the sum of
\* subsidyAmount over all paid milestones, every project's disbursedAmount is
\* the sum over its own paid milestones, and totalDisbursed <= totalSubsidyPool.
C1_Conservation ==
    /\ totalDisbursed = PaidSum(milestones, MilestoneIds)
    /\ \A pid \in ProjectIds :
          projects[pid].disbursedAmount = PaidSum(milestones, MilestonesOf(pid))
    /\ totalDisbursed <= totalSubsidyPool

\* a payment made in a ledger of two projects from which funds were withdrawn
C1_Witness ==
    /\ nextProjectId = 3
    /\ \E m \in MilestoneIds : milestones[m].paid /\ milestones[m].projectId = 2
    /\ ethReceived[Deployer] > 0

\* C2 At-most-once payment: whatever verify / dispute / resolve calls were
\* made, a milestone was transferred to its producer at most once, and exactly
\* once when it is paid.
C2_AtMostOncePayment ==
    \A m \in MilestoneIds :
        transferCount[m] = (IF milestones[m].paid THEN 1 ELSE 0)

\* a paid milestone under dispute that the auditor can approve again
C2_Witness ==
    \E m \in MilestoneIds :
        /\ milestones[m].paid
        /\ milestones[m].status = "Disputed"
        /\ resolveDispute(Cur, Auditor, m, TRUE).ok

\* C3 Project budget cap: every project has disbursedAmount <= totalSubsidyAmount.
C3_ProjectBudgetCap ==
    \A pid \in ProjectIds :
        projects[pid].disbursedAmount <= projects[pid].totalSubsidyAmount

\* C4 as stated: every paid milestone has status Verified.
C4_PaidImpliesVerified ==
    \A m \in MilestoneIds : milestones[m].paid => milestones[m].status = "Verified"

\* C4 amended: a paid milestone is never Pending (it is Verified, or Disputed or
\* Failed after a later dispute), and a milestone becomes paid only in a step
\* that leaves it Verified.
C4_PaidWasVerified ==
    /\ [](\A m \in MilestoneIds :
            milestones[m].paid => milestones[m].status \in {"Verified", "Disputed", "Failed"})
    /\ [][\A m \in MilestoneIds :
            (~milestones[m].paid /\ milestones'[m].paid)
                => milestones'[m].status = "Verified"]_vars

\* a paid milestone that a dispute has taken out of Verified
C4_Witness ==
    \E m \in MilestoneIds : milestones[m].paid /\ milestones[m].status = "Disputed"

\* C5 No clawback: a paid milestone stays paid in every later state; disputing
\* a paid Verified milestone and resolving with approve=false leaves it Failed
\* and paid, with totalDisbursed, the project's disbursedAmount and every
\* address's received ether as before the dispute.
C5_DisputeRejected(m) ==
    LET pid == milestones[m].projectId
        d == disputeMilestone(Cur, projects[pid].producer, m)
        r == resolveDispute(d.st, Auditor, m, FALSE)
    IN /\ d.ok /\ r.ok
       /\ d.st.milestones[m].status = "Disputed"
       /\ r.st.milestones[m].status = "Failed"
       /\ d.st.milestones[m].paid /\ r.st.milestones[m].paid
       /\ r.st.totalDisbursed = totalDisbursed
       /\ r.st.projects[pid].disbursedAmount = projects[pid].disbursedAmount
       /\ r.st.ethReceived = ethReceived
       /\ r.st.balance = balance

C5_NoClawback ==
    /\ [](\A m \in MilestoneIds :
            (milestones[m].paid /\ milestones[m].status = "Verified")
                => C5_DisputeRejected(m))
    /\ [][\A m \in MilestoneIds : milestones[m].paid => milestones'[m].paid]_vars

\* a paid milestone whose dispute was resolved with approve=false
C5_Witness ==
    \E m \in MilestoneIds : milestones[m].paid /\ milestones[m].status = "Failed"

\* C6 Monotonic pool: no step decreases totalDisbursed.
C6_MonotonicDisbursed == [][totalDisbursed' >= totalDisbursed]_vars

\* two payments were made
C6_Witness == totalDisbursed >= 2

\* C7 While the ledger is paused every registerProject call is rejected.
RegisterInputs == Callers \X Address \X Names \X (0..(MaxAmount + 1))

C7_PausedRejectsRegistration ==
    paused => \A in \in RegisterInputs :
                 ~registerProject(Cur, in[1], in[2], in[3], in[4]).ok

\* C8 / C9 / C10: what a call does on its inputs, stated of the operators at
\* every reachable state.
AnyAmount == 0..(MaxAmount + 1)
AnyValue == 0..(MaxValue + 1)

\* milestone m is Pending before its deadline in an Active project, and the
\* contract holds less than its subsidyAmount
C8_Underfunded(m) ==
    /\ milestones[m].status = "Pending"
    /\ now <= milestones[m].deadline
    /\ projects[milestones[m].projectId].status = "Active"
    /\ balance < milestones[m].subsidyAmount

C8_Calls(m) ==
    {c \in {Auditor, Oracle} \X AnyValue : c[2] >= milestones[m].targetValue}

Unchanged(r, s) == r.ok \/ (r.st = s /\ r.ev = <<>>)

C9_Ledger ==
    LET s == Cur IN
    /\ \A a \in GovCallers, v \in AnyAmount :
          /\ Unchanged(addFunds(s, a, v), s)
          /\ Unchanged(receive(s, a, v), s)
          /\ \A to \in Producers : Unchanged(emergencyWithdraw(s, a, v, to), s)
          /\ \A to \in Producers, n \in Names :
                Unchanged(registerProject(s, a, to, n, v), s)
          /\ \A pid \in 1..nextProjectId, n \in Names, tv \in Values, d \in {now, now + 1} :
                Unchanged(addMilestone(s, a, pid, n, v, tv, d), s)
    /\ \A mid \in 1..nextMilestoneId :
          /\ \A a \in {Auditor, Oracle, Other}, av \in AnyValue, b \in BOOLEAN :
                Unchanged(verifyMilestone(s, a, mid, av, b), s)
          /\ \A a \in DisputeCallers : Unchanged(disputeMilestone(s, a, mid), s)
          /\ \A a \in {Auditor, Oracle}, b \in BOOLEAN :
                Unchanged(resolveDispute(s, a, mid, b), s)
    /\ \A a \in GovCallers :
          /\ \A pid \in 1..nextProjectId, st \in ProjectStatus :
                Unchanged(updateProjectStatus(s, a, pid, st), s)
          /\ Unchanged(pause(s, a), s)
          /\ Unchanged(unpause(s, a), s)

AnyDataId == DOMAIN dataPoints \cup {DataId(x, 1, StartTime, Oracle) : x \in Sources}

C9_Oracle ==
    LET o == OCur IN
    \A a \in OperatorCallers \cup ProviderCallers :
        /\ \A x \in Sources :
              /\ \A ty \in DataSourceType : Unchanged(addTrustedSource(o, a, x, ty), o)
              /\ Unchanged(removeTrustedSource(o, a, x), o)
              /\ \A v \in AnyValue, md \in Metadata : Unchanged(submitData(o, a, x, v, md), o)
              /\ \A sc \in Scores : Unchanged(updateSourceReliability(o, a, x, sc), o)
        /\ \A id \in AnyDataId, b \in BOOLEAN : Unchanged(verifyData(o, a, id, b), o)
        /\ \A ty \in DataSourceType, sc \in Scores :
              Unchanged(updateVerificationThreshold(o, a, ty, sc), o)
        /\ Unchanged(oraclePause(o, a), o)
        /\ Unchanged(oracleUnpause(o, a), o)

C9_AllOrNothing ==
    /\ onLedger => C9_Ledger
    /\ onOracle => C9_Oracle

\* a successful verification whose payment step fails: the project is not Active
C9_Witness ==
    \E m \in MilestoneIds :
        /\ milestones[m].status = "Pending"
        /\ now <= milestones[m].deadline
        /\ verifyMilestone(Cur, Oracle, m, milestones[m].targetValue, TRUE).err
              = "Project not active"

\* C10 The payment step is gated by the pool's available balance: for an
\* unpaid milestone of an Active project entering Verified, the payment fails
\* with insufficient funds exactly when subsidyAmount > totalSubsidyPool -
\* totalDisbursed and succeeds otherwise.
C10_PaymentGatedByPool ==
    \A m \in MilestoneIds :
        ( /\ milestones[m].status \in {"Pending", "Disputed"}
          /\ ~milestones[m].paid
          /\ projects[milestones[m].projectId].status = "Active" )
        => LET s1 == [Cur EXCEPT !.milestones[m].status = "Verified"]
               p == _processMilestonePayment(s1, m)
               short == milestones[m].subsidyAmount > getAvailableSubsidy(Cur)
           IN /\ p.ok <=> ~short
              /\ ~p.ok => p.err = "Insufficient contract balance"

\* C11 as stated: the ether held by the ledger equals the reported available
\* subsidy, in every reachable state.
C11_BalanceEqualsAvailable ==
    getContractBalance(Cur) = getAvailableSubsidy(Cur)

\* C12 Verification outcome: for a Pending milestone of an Active project
\* before its deadline, with the contract holding at least its subsidyAmount,
\* every call by an oracle or auditor succeeds and records actualValue,
\* verifiedAt and verifiedBy; it ends Verified and paid, with the producer
\* credited subsidyAmount and totalDisbursed raised by subsidyAmount, exactly
\* when success and actualValue >= targetValue, and otherwise ends Failed and
\* unpaid with no ether moved.
C12_Ready(m) ==
    /\ milestones[m].status = "Pending"
    /\ now <= milestones[m].deadline
    /\ projects[milestones[m].projectId].status = "Active"
    /\ balance >= milestones[m].subsidyAmount

C12_VerificationOutcome ==
    \A m \in MilestoneIds : C12_Ready(m) =>
        \A a \in {Oracle, Auditor}, av \in AnyValue, success \in BOOLEAN :
            LET r == verifyMilestone(Cur, a, m, av, success)
                amt == milestones[m].subsidyAmount
                to == projects[milestones[m].projectId].producer
                after == r.st.milestones[m]
                met == success /\ av >= milestones[m].targetValue
            IN /\ r.ok
               /\ after.actualValue = av
               /\ after.verifiedAt = now
               /\ after.verifiedBy = a
               /\ met => /\ after.status = "Verified" /\ after.paid
                         /\ r.st.ethReceived = [ethReceived EXCEPT ![to] = @ + amt]
                         /\ r.st.balance = balance - amt
                         /\ r.st.totalDisbursed = totalDisbursed + amt
               /\ ~met => /\ after.status = "Failed" /\ ~after.paid
                          /\ r.st.ethReceived = ethReceived
                          /\ r.st.balance = balance
                          /\ r.st.totalDisbursed = totalDisbursed

\* one milestone verified and paid by the oracle, another one failed by it
C12_Witness ==
    \E m1, m2 \in MilestoneIds :
        /\ milestones[m1].status = "Verified" /\ milestones[m1].paid
        /\ milestones[m1].verifiedBy = Oracle
        /\ milestones[m2].status = "Failed" /\ ~milestones[m2].paid
        /\ milestones[m2].verifiedBy = Oracle

\* C13 Deadline: every verifyMilestone call on a Pending milestone made when
\* now > deadline is rejected (for an oracle or auditor with "Milestone
\* deadline passed") and leaves the milestone Pending with actualValue 0 and
\* paid=false; at now = deadline no call is rejected for the deadline.
C13_Deadline ==
    \A m \in MilestoneIds : milestones[m].status = "Pending" =>
        \A a \in Callers, av \in AnyValue, success \in BOOLEAN :
            LET r == verifyMilestone(Cur, a, m, av, success)
            IN /\ now > milestones[m].deadline =>
                     /\ ~r.ok
                     /\ a \in {Oracle, Auditor} => r.err = "Milestone deadline passed"
                     /\ r.st.milestones[m].status = "Pending"
                     /\ r.st.milestones[m].actualValue = 0
                     /\ ~r.st.milestones[m].paid
               /\ now = milestones[m].deadline =>
                     /\ r.err # "Milestone deadline passed"
                     /\ (a \in {Oracle, Auditor} /\ ~(success /\ av >= milestones[m].targetValue))
                           => r.ok

\* a Pending milestone whose deadline has passed
C13_Witness ==
    \E m \in MilestoneIds :
        milestones[m].status = "Pending" /\ now > milestones[m].deadline

\* C14 disputeMilestone succeeds exactly when the caller is the producer of
\* the milestone's own project or holds the Government role and the milestone
\* is Verified or Failed; it then sets the status to Disputed and changes
\* nothing else.  Pending and Disputed milestones, milestones that do not
\* exist, and producers of other projects are rejected.
C14_DisputeGuard ==
    /\ \A m \in MilestoneIds, a \in Callers :
          LET r == disputeMilestone(Cur, a, m)
              own == projects[milestones[m].projectId].producer
              allowed == a = own \/ hasRole(Cur, GOVERNMENT_ROLE, a)
              open == milestones[m].status \in {"Verified", "Failed"}
          IN /\ r.ok <=> (allowed /\ open)
             /\ r.ok => /\ r.st = [Cur EXCEPT !.milestones[m].status = "Disputed"]
                        /\ r.ev = <<>>
             /\ ~r.ok => r.st = Cur
             /\ milestones[m].status \in {"Pending", "Disputed"} => ~r.ok
             /\ ( /\ a # own
                  /\ \E pid \in ProjectIds : projects[pid].producer = a
                  /\ ~hasRole(Cur, GOVERNMENT_ROLE, a) ) => ~r.ok
    /\ \A a \in Callers, m \in {0, nextMilestoneId} : ~disputeMilestone(Cur, a, m).ok

\* a disputed milestone, beside a project of another producer
C14_Witness ==
    \E m \in MilestoneIds, pid \in ProjectIds :
        /\ milestones[m].status = "Disputed"
        /\ pid # milestones[m].projectId
        /\ projects[pid].producer # projects[milestones[m].projectId].producer

\* C15 resolveDispute succeeds only for an auditor and a Disputed milestone.
\* With approve=true the milestone becomes Verified; the payment step runs
\* exactly when paid was false (the call then succeeds or fails with it), and
\* a paid milestone gets no second transfer.  With approve=false the
\* milestone becomes Failed and no ether moves.
C15_NoFundsMoved(s) ==
    /\ s.balance = balance
    /\ s.ethReceived = ethReceived
    /\ s.transferCount = transferCount
    /\ s.totalDisbursed = totalDisbursed
    /\ s.projects = projects

C15_ResolveDispute ==
    \A m \in MilestoneIds, a \in Callers, approve \in BOOLEAN :
        LET r == resolveDispute(Cur, a, m, approve)
            s1 == [Cur EXCEPT !.milestones[m].status = "Verified"]
            p == _processMilestonePayment(s1, m)
        IN /\ r.ok => (hasRole(Cur, AUDITOR_ROLE, a) /\ milestones[m].status = "Disputed")
           /\ ~r.ok => r.st = Cur
           /\ (hasRole(Cur, AUDITOR_ROLE, a) /\ milestones[m].status = "Disputed") =>
                 /\ (approve /\ milestones[m].paid) =>
                       /\ r.ok /\ r.st = s1 /\ C15_NoFundsMoved(r.st)
                 /\ (approve /\ ~milestones[m].paid) =>
                       /\ r.ok <=> p.ok
                       /\ r.ok => /\ r.st = p.st
                                  /\ r.st.milestones[m].status = "Verified"
                                  /\ r.st.milestones[m].paid
                                  /\ r.st.transferCount[m] = 1
                 /\ ~approve =>
                       /\ r.ok
                       /\ r.st = [Cur EXCEPT !.milestones[m].status = "Failed"]
                       /\ C15_NoFundsMoved(r.st)

\* a milestone that failed verification and was paid through an approved dispute
C15_Witness ==
    \E m \in MilestoneIds :
        /\ milestones[m].status = "Verified" /\ milestones[m].paid
        /\ milestones[m].actualValue < milestones[m].targetValue

\* C16 Role gating: a call by a caller lacking the required role is rejected
\* and changes nothing, whatever its arguments: Government for addFunds,
\* registerProject, addMilestone, updateProjectStatus, emergencyWithdraw,
\* pause and unpause; Oracle or Auditor for verifyMilestone; Auditor for
\* resolveDispute; in the oracle, OracleOperator for addTrustedSource,
\* removeTrustedSource, verifyData, updateVerificationThreshold,
\* updateSourceReliability, pause and unpause, and DataProvider for
\* submitData.  Every call of a sequence of such calls is then a no-op.
Rejected(r, s) == ~r.ok /\ r.st = s /\ r.ev = <<>>

C16_Ledger ==
    LET s == Cur IN
    /\ \A a \in {c \in Callers : ~hasRole(s, GOVERNMENT_ROLE, c)} :
          /\ \A v \in AnyAmount :
                /\ Rejected(addFunds(s, a, v), s)
                /\ \A to \in Producers :
                      /\ Rejected(emergencyWithdraw(s, a, v, to), s)
                      /\ \A n \in Names : Rejected(registerProject(s, a, to, n, v), s)
                /\ \A pid \in 1..nextProjectId, n \in Names :
                      Rejected(addMilestone(s, a, pid, n, v, 1, now + 1), s)
          /\ \A pid \in 1..nextProjectId, st \in ProjectStatus :
                Rejected(updateProjectStatus(s, a, pid, st), s)
          /\ Rejected(pause(s, a), s)
          /\ Rejected(unpause(s, a), s)
    /\ \A a \in {c \in Callers : ~hasRole(s, ORACLE_ROLE, c) /\ ~hasRole(s, AUDITOR_ROLE, c)},
          mid \in 1..nextMilestoneId, av \in AnyValue, b \in BOOLEAN :
          Rejected(verifyMilestone(s, a, mid, av, b), s)
    /\ \A a \in {c \in Callers : ~hasRole(s, AUDITOR_ROLE, c)},
          mid \in 1..nextMilestoneId, b \in BOOLEAN :
          Rejected(resolveDispute(s, a, mid, b), s)

C16_Oracle ==
    LET o == OCur IN
    /\ \A a \in {c \in Callers : ~hasRole(o, ORACLE_OPERATOR_ROLE, c)} :
          /\ \A x \in Sources :
                /\ \A ty \in DataSourceType : Rejected(addTrustedSource(o, a, x, ty), o)
                /\ Rejected(removeTrustedSource(o, a, x), o)
                /\ \A sc \in Scores : Rejected(updateSourceReliability(o, a, x, sc), o)
          /\ \A id \in AnyDataId, b \in BOOLEAN : Rejected(verifyData(o, a, id, b), o)
          /\ \A ty \in DataSourceType, sc \in Scores :
                Rejected(updateVerificationThreshold(o, a, ty, sc), o)
          /\ Rejected(oraclePause(o, a), o)
          /\ Rejected(oracleUnpause(o, a), o)
    /\ \A a \in {c \in Callers : ~hasRole(o, DATA_PROVIDER_ROLE, c)},
          x \in Sources, v \in AnyValue, md \in Metadata :
          Rejected(submitData(o, a, x, v, md), o)

C16_RoleGating ==
    /\ onLedger => C16_Ledger
    /\ onOracle => C16_Oracle

\* a dispute the auditor can resolve and the oracle cannot, in a project whose
\* status the government can set and the producer cannot
C16_Witness ==
    \E m \in MilestoneIds :
        /\ resolveDispute(Cur, Auditor, m, FALSE).ok
        /\ ~resolveDispute(Cur, Oracle, m, FALSE).ok
        /\ updateProjectStatus(Cur, Government, milestones[m].projectId, "Suspended").ok
        /\ ~updateProjectStatus(Cur, Producer, milestones[m].projectId, "Suspended").ok

\* C17 as stated: registerProject by any holder of the Government role, with
\* a non-zero producer, a non-empty name and 0 < amount <= totalSubsidyPool -
\* totalDisbursed, succeeds, creates a Pending project with disbursedAmount 0
\* under the next id, and leaves the producer holding the Producer role.
C17_GovernmentRegisters ==
    \A a \in {c \in Callers : hasRole(Cur, GOVERNMENT_ROLE, c)},
       to \in Address \ {Zero}, v \in 1..getAvailableSubsidy(Cur) :
        LET r == registerProject(Cur, a, to, "H2", v)
            id == nextProjectId
        IN /\ r.ok
           /\ r.st.nextProjectId = id + 1
           /\ r.st.projects[id].status = "Pending"
           /\ r.st.projects[id].disbursedAmount = 0
           /\ r.st.projects[id].producer = to
           /\ r.st.projects[id].totalSubsidyAmount = v
           /\ hasRole(r.st, PRODUCER_ROLE, to)

\* C18 A registerProject call rejected for a zero producer, an empty name, a
\* zero amount or an amount above totalSubsidyPool - totalDisbursed leaves
\* the storage as it was (no project, no role, nextProjectId unchanged), and
\* a valid registration made after it gets the id nextProjectId.
C18_ValidationErrors ==
    {"Invalid producer address", "Project name cannot be empty",
     "Subsidy amount must be greater than 0", "Insufficient subsidy pool"}

C18_RejectedConsumesNothing ==
    \A a \in {Deployer, Government}, to \in Producers, n \in Names, v \in AnyAmount :
        LET r == registerProject(Cur, a, to, n, v)
            invalid == to = Zero \/ n = "" \/ v = 0 \/ v > getAvailableSubsidy(Cur)
        IN /\ invalid => (~r.ok /\ r.err \in C18_ValidationErrors)
           /\ (~r.ok /\ r.err \in C18_ValidationErrors) =>
                 /\ r.st.nextProjectId = nextProjectId
                 /\ r.st.projects = projects
                 /\ r.st.producerProjects = producerProjects
                 /\ r.st.roles = roles
                 /\ r.ev = <<>>
                 /\ \A w \in 1..getAvailableSubsidy(Cur) :
                       LET g == registerProject(r.st, Deployer, Producer, "H2", w)
                       IN /\ g.ok
                          /\ g.ev[1].projectId = nextProjectId
                          /\ g.st.nextProjectId = nextProjectId + 1
                          /\ Len(g.st.projects) = Len(projects) + 1

\* after one registration, a state in which an amount is above the available
\* subsidy and a smaller one is not
C18_Witness ==
    /\ nextProjectId = 2
    /\ getAvailableSubsidy(Cur) = 1
    /\ totalDisbursed = 1

\* C19 as stated: no call by a caller without the Government role, and no
\* zero-amount addition, changes totalSubsidyPool or emits FundsAdded.
C19_FundsAdded(r) == \E i \in 1..Len(r.ev) : r.ev[i].name = "FundsAdded"

C19_PoolUntouched(r) ==
    r.st.totalSubsidyPool = totalSubsidyPool /\ ~C19_FundsAdded(r)

C19_PoolOnlyByGovernment ==
    /\ \A a \in {c \in Callers : ~hasRole(Cur, GOVERNMENT_ROLE, c)}, v \in AnyAmount :
          /\ C19_PoolUntouched(addFunds(Cur, a, v))
          /\ C19_PoolUntouched(receive(Cur, a, v))
    /\ \A a \in Callers :
          /\ C19_PoolUntouched(addFunds(Cur, a, 0))
          /\ C19_PoolUntouched(receive(Cur, a, 0))

\* C20 Automatic completion: right after a successful payment the owning
\* project is Completed exactly when it has a milestone and all its
\* milestones are Verified and paid; a Completed project leaves Completed
\* only by updateProjectStatus, and enters it otherwise only with a payment,
\* so that without status overrides it enters Completed at most once; and
\* every addMilestone on a Completed project is rejected.
C20_AllPaid(s, pid) ==
    LET ids == s.projects[pid].milestoneIds
    IN /\ Len(ids) > 0
       /\ \A i \in 1..Len(ids) :
             s.milestones[ids[i]].status = "Verified" /\ s.milestones[ids[i]].paid

C20_AfterPayment(r, m) ==
    (r.ok /\ r.st.transferCount[m] > transferCount[m]) =>
        LET pid == milestones[m].projectId
        IN /\ r.st.projects[pid].status = "Completed" <=> C20_AllPaid(r.st, pid)
           /\ r.st.projects[pid].status \in {"Active", "Completed"}

C20_Operators ==
    /\ \A m \in MilestoneIds :
          /\ \A a \in {Oracle, Auditor}, av \in AnyValue, success \in BOOLEAN :
                C20_AfterPayment(verifyMilestone(Cur, a, m, av, success), m)
          /\ C20_AfterPayment(resolveDispute(Cur, Auditor, m, TRUE), m)
    /\ \A pid \in ProjectIds : projects[pid].status = "Completed" =>
          \A a \in GovCallers, n \in Names, v \in AnyAmount, tv \in Values,
             d \in {now, now + 1} :
              LET r == addMilestone(Cur, a, pid, n, v, tv, d)
              IN ~r.ok /\ r.st = Cur

C20_AutomaticCompletion ==
    /\ []C20_Operators
    /\ [][\A pid \in ProjectIds :
            /\ (projects[pid].status = "Completed" /\ projects'[pid].status # "Completed")
                  => UpdateProjectStatus
            /\ (projects[pid].status # "Completed" /\ projects'[pid].status = "Completed"
                  /\ ~UpdateProjectStatus)
                  => /\ totalDisbursed' > totalDisbursed
                     /\ C20_AllPaid([projects |-> projects', milestones |-> milestones'], pid)
         ]_vars

\* a project of two milestones completed by the payment of the second
C20_Witness ==
    \E pid \in ProjectIds :
        /\ projects[pid].status = "Completed"
        /\ Len(projects[pid].milestoneIds) = 2
        /\ C20_AllPaid(Cur, pid)
        /\ projects[pid].disbursedAmount = 2

\* C21 Status reachability: the status of a Cancelled, Completed or Suspended
\* project is changed by updateProjectStatus of a Government caller only, and
\* the only other changes of a project's status are Pending -> Active by an
\* addMilestone and Active -> Completed by a payment.
C21_Frozen(r) ==
    LET after == r.st.projects
    IN \A pid \in ProjectIds : after[pid].status = projects[pid].status

C21_Automatic(r, from, to) ==
    LET after == r.st.projects
    IN \A pid \in ProjectIds :
          \/ after[pid].status = projects[pid].status
          \/ projects[pid].status = from /\ after[pid].status = to

C21_Operators ==
    LET s == Cur IN
    /\ \A a \in GovCallers, v \in Amounts :
          /\ C21_Frozen(addFunds(s, a, v))
          /\ C21_Frozen(receive(s, a, v))
          /\ C21_Frozen(emergencyWithdraw(s, a, v, Producer))
          /\ C21_Frozen(registerProject(s, a, Producer, "H2", v))
          /\ \A pid \in ProjectIds, d \in {now, now + 1} :
                LET r == addMilestone(s, a, pid, "H2", v, 1, d)
                IN /\ C21_Automatic(r, "Pending", "Active")
                   /\ ~C21_Frozen(r) => r.st.nextMilestoneId = nextMilestoneId + 1
    /\ \A a \in GovCallers : C21_Frozen(pause(s, a)) /\ C21_Frozen(unpause(s, a))
    /\ \A a \in {c \in Callers : ~hasRole(s, GOVERNMENT_ROLE, c)}, pid \in ProjectIds,
          st \in {"Pending", "Cancelled"} : C21_Frozen(updateProjectStatus(s, a, pid, st))
    /\ \A m \in MilestoneIds :
          /\ \A a \in DisputeCallers : C21_Frozen(disputeMilestone(s, a, m))
          /\ \A a \in {Oracle, Auditor}, av \in Values, b \in BOOLEAN :
                LET r == verifyMilestone(s, a, m, av, b)
                IN /\ C21_Automatic(r, "Active", "Completed")
                   /\ ~C21_Frozen(r) => r.st.milestones[m].paid
          /\ \A b \in BOOLEAN :
                LET r == resolveDispute(s, Auditor, m, b)
                IN /\ C21_Automatic(r, "Active", "Completed")
                   /\ ~C21_Frozen(r) => (~milestones[m].paid /\ r.st.milestones[m].paid)

C21_StatusReachability ==
    /\ []C21_Operators
    /\ [][projects' # projects => \A pid \in ProjectIds :
            (projects'[pid].status # projects[pid].status /\ ~UpdateProjectStatus)
               => \/ /\ projects[pid].status = "Pending"
                     /\ projects'[pid].status = "Active"
                     /\ nextMilestoneId' = nextMilestoneId + 1
                  \/ /\ projects[pid].status = "Active"
                     /\ projects'[pid].status = "Completed"
                     /\ totalDisbursed' > totalDisbursed
         ]_vars

\* a Suspended project with a milestone that could otherwise be verified and paid
C21_Witness ==
    \E m \in MilestoneIds :
        /\ milestones[m].status = "Pending"
        /\ now <= milestones[m].deadline
        /\ balance >= milestones[m].subsidyAmount
        /\ projects[milestones[m].projectId].status = "Suspended"

\* C22 addMilestone succeeds exactly when the caller holds the Government
\* role, the project exists and is Pending or Active, the description is not
\* empty, subsidyAmount > 0, targetValue > 0, deadline > now and
\* disbursedAmount + subsidyAmount <= totalSubsidyAmount; it then appends a
\* Pending, unpaid milestone with actualValue 0 under the next milestone id
\* at the end of the project's milestoneIds and leaves the project Active.
C22_AddMilestone ==
    \A a \in GovCallers, pid \in 1..nextProjectId, n \in Names,
       v \in AnyAmount, tv \in Values, d \in {now, now + 1} :
        LET r == addMilestone(Cur, a, pid, n, v, tv, d)
            valid == /\ hasRole(Cur, GOVERNMENT_ROLE, a)
                     /\ pid \in ProjectIds
                     /\ projects[pid].status \in {"Pending", "Active"}
                     /\ n # "" /\ v > 0 /\ tv > 0 /\ d > now
                     /\ projects[pid].disbursedAmount + v <= projects[pid].totalSubsidyAmount
            id == nextMilestoneId
        IN /\ r.ok <=> valid
           /\ ~r.ok => r.st = Cur
           /\ r.ok =>
                 /\ r.st.nextMilestoneId = id + 1
                 /\ r.st.milestones[id] =
                       [projectId |-> pid, subsidyAmount |-> v, targetValue |-> tv,
                        actualValue |-> 0, deadline |-> d, status |-> "Pending",
                        verifiedAt |-> 0, verifiedBy |-> Zero, paid |-> FALSE]
                 /\ r.st.projects[pid].milestoneIds = Append(projects[pid].milestoneIds, id)
                 /\ r.st.projects[pid].status = "Active"
                 /\ \A m \in MilestoneIds : r.st.milestones[m] = milestones[m]
                 /\ \A q \in ProjectIds \ {pid} : r.st.projects[q] = projects[q]

\* an Active project holding two milestones, the first of them paid
C22_Witness ==
    \E pid \in ProjectIds :
        /\ projects[pid].status = "Active"
        /\ projects[pid].milestoneIds = <<1, 2>>
        /\ milestones[1].paid

\* C23 Government override: updateProjectStatus by a holder of the Government
\* role on an existing project succeeds from every status to every status,
\* sets that status and changes nothing else.
C23_GovernmentOverride ==
    \A a \in {c \in Callers : hasRole(Cur, GOVERNMENT_ROLE, c)}, pid \in ProjectIds,
       st \in ProjectStatus :
        LET r == updateProjectStatus(Cur, a, pid, st)
        IN /\ r.ok
           /\ r.st = [Cur EXCEPT !.projects[pid].status = st]
           /\ r.st.milestones = milestones
           /\ r.st.projects[pid].disbursedAmount = projects[pid].disbursedAmount
           /\ r.st.totalSubsidyPool = totalSubsidyPool
           /\ r.st.totalDisbursed = totalDisbursed
           /\ r.st.balance = balance
           /\ r.st.ethReceived = ethReceived

\* a project taken back to Pending after it was paid out
C23_Witness ==
    \E pid \in ProjectIds :
        /\ projects[pid].status = "Pending"
        /\ projects[pid].disbursedAmount > 0
        /\ updateProjectStatus(Cur, Government, pid, "Cancelled").ok

\* C24 as stated: every successful call that changes a milestone's or a
\* project's status emits at least one event, and one carrying the id of the
\* milestone or project concerned.
C24_Carries(r, field, id) ==
    \E i \in 1..Len(r.ev) : field \in DOMAIN r.ev[i] /\ r.ev[i][field] = id

C24_MilestoneLogged(r, m) ==
    (r.ok /\ r.st.milestones[m].status # milestones[m].status)
        => (r.ev # <<>> /\ C24_Carries(r, "milestoneId", m))

C24_ProjectLogged(r) ==
    \A pid \in ProjectIds :
        (r.ok /\ r.st.projects[pid].status # projects[pid].status)
            => C24_Carries(r, "projectId", pid)

C24_StatusChangesLogged ==
    /\ \A m \in MilestoneIds :
          /\ \A a \in {Oracle, Auditor}, av \in Values, b \in BOOLEAN :
                LET r == verifyMilestone(Cur, a, m, av, b)
                IN C24_MilestoneLogged(r, m) /\ C24_ProjectLogged(r)
          /\ \A a \in DisputeCallers :
                C24_MilestoneLogged(disputeMilestone(Cur, a, m), m)
          /\ \A b \in BOOLEAN :
                LET r == resolveDispute(Cur, Auditor, m, b)
                IN C24_MilestoneLogged(r, m) /\ C24_ProjectLogged(r)
    /\ \A a \in GovCallers, pid \in ProjectIds, st \in ProjectStatus :
          C24_ProjectLogged(updateProjectStatus(Cur, a, pid, st))

\* C30 Payments happen only for Active projects: paid turns true only in a
\* step that starts with the owning project Active and leaves the milestone
\* Verified; while the project is not Active, a verifyMilestone on the success
\* path and a resolveDispute(approve=true) on an unpaid milestone are rejected
\* with "Project not active" and leave the milestone Pending, respectively
\* Disputed, and unpaid.
C30_Operators ==
    \A m \in MilestoneIds :
        projects[milestones[m].projectId].status # "Active" =>
            /\ (milestones[m].status = "Pending" /\ now <= milestones[m].deadline) =>
                  \A a \in {Oracle, Auditor}, av \in AnyValue :
                      av >= milestones[m].targetValue =>
                          LET r == verifyMilestone(Cur, a, m, av, TRUE)
                          IN /\ ~r.ok /\ r.err = "Project not active"
                             /\ r.st = Cur
                             /\ r.st.milestones[m].status = "Pending"
                             /\ ~r.st.milestones[m].paid
            /\ (milestones[m].status = "Disputed" /\ ~milestones[m].paid) =>
                  LET r == resolveDispute(Cur, Auditor, m, TRUE)
                  IN /\ ~r.ok /\ r.err = "Project not active"
                     /\ r.st = Cur
                     /\ r.st.milestones[m].status = "Disputed"
                     /\ ~r.st.milestones[m].paid

C30_PaidOnlyWhenActive ==
    /\ []C30_Operators
    /\ [][\A m \in MilestoneIds :
            (~milestones[m].paid /\ milestones'[m].paid) =>
                /\ projects[milestones[m].projectId].status = "Active"
                /\ milestones'[m].status = "Verified"
                /\ projects'[milestones[m].projectId].status \in {"Active", "Completed"}
         ]_vars

\* an unpaid Disputed milestone of a Cancelled project, while another
\* milestone has been paid
C30_Witness ==
    \E m, k \in MilestoneIds :
        /\ milestones[m].status = "Disputed" /\ ~milestones[m].paid
        /\ projects[milestones[m].projectId].status = "Cancelled"
        /\ balance >= milestones[m].subsidyAmount
        /\ milestones[k].paid

\* the ids getVerifiedData returns for a source over the whole time range
Visible(o, source) ==
    LET ids == getVerifiedData(o, source, 0, MaxTime + 1).validDataIds
    IN {ids[k] : k \in 1..Len(ids)}

SubmitCallers == {Deployer, Oracle, Other}

C25_Permitted(sender, source) ==
    /\ hasRole(OCur, DATA_PROVIDER_ROLE, sender)
    /\ trustedSources[source]
    /\ ~oraclePaused

\* submitData succeeds only when the caller holds DataProvider, the source is
\* trusted and the oracle is not paused; otherwise it stores nothing
C25_Gating ==
    \A a \in SubmitCallers, x \in Sources, v \in AnyValue :
        LET r == submitData(OCur, a, x, v, "proof")
        IN /\ r.ok <=> C25_Permitted(a, x)
           /\ ~r.ok => r.st = OCur

\* a submission rejected while paused succeeds when repeated after unpause
C25_RetryAfterUnpause ==
    \A a \in SubmitCallers, x \in Sources, v \in AnyValue :
        LET r == submitData(OCur, a, x, v, "proof")
        IN (~r.ok /\ r.err = "Pausable: paused") =>
              submitData(oracleUnpause(OCur, Deployer).st, a, x, v, "proof").ok

\* a submitted data point is not returned by getVerifiedData until
\* verifyData(id, true), and an id becomes visible only in a step that leaves
\* it verified by a holder of the operator role
C25_VisibleOnlyVerified ==
    /\ \A a \in SubmitCallers, x \in Sources, v \in AnyValue :
          LET r == submitData(OCur, a, x, v, "proof")
              id == DataId(x, v, now, a)
          IN r.ok =>
                /\ id \notin Visible(r.st, x)
                /\ id \notin Visible(verifyData(r.st, Deployer, id, FALSE).st, x)
                /\ id \in Visible(verifyData(r.st, Deployer, id, TRUE).st, x)
    /\ \A x \in Sources : \A id \in Visible(OCur, x) :
          /\ dataPoints[id].isVerified
          /\ hasRole(OCur, ORACLE_OPERATOR_ROLE, dataPoints[id].verifier)

\* C25 as stated: whenever a submission is rejected for an untrusted source,
\* the same submission succeeds after addTrustedSource
C25_RetryAfterAddAlways ==
    \A a \in SubmitCallers, x \in Sources, v \in AnyValue, ty \in SourceTypeInputs :
        LET r == submitData(OCur, a, x, v, "proof")
        IN (~r.ok /\ r.err = "Source not trusted") =>
              submitData(addTrustedSource(OCur, Deployer, x, ty).st, a, x, v, "proof").ok

C25_AsStated ==
    /\ C25_Gating
    /\ C25_RetryAfterAddAlways
    /\ C25_RetryAfterUnpause
    /\ C25_VisibleOnlyVerified

\* C25 amended: Oracle submission gating.  submitData succeeds only when the
\* caller holds DataProvider, the source is trusted and the oracle is not
\* paused; otherwise it is rejected and stores nothing.  A submission rejected
\* for an untrusted source, repeated after addTrustedSource, succeeds exactly
\* when the oracle is not paused, and is rejected as paused otherwise; a
\* submission rejected while paused succeeds when repeated after unpause; a
\* data point becomes visible in getVerifiedData only after verifyData(id, true).
C25_RetryAfterAdd ==
    \A a \in SubmitCallers, x \in Sources, v \in AnyValue, ty \in SourceTypeInputs :
        LET r == submitData(OCur, a, x, v, "proof")
            again == submitData(addTrustedSource(OCur, Deployer, x, ty).st,
                                a, x, v, "proof")
        IN (~r.ok /\ r.err = "Source not trusted") =>
              /\ again.ok <=> ~oraclePaused
              /\ ~again.ok => again.err = "Pausable: paused"

C25_SubmissionGating ==
    /\ C25_Gating
    /\ C25_RetryAfterAdd
    /\ C25_RetryAfterUnpause
    /\ C25_VisibleOnlyVerified

\* the oracle is paused, a provider's submission is rejected for an untrusted
\* source, and a verified data point of the other source is visible
C25_Witness ==
    /\ oraclePaused
    /\ \E x, y \in Sources :
          /\ submitData(OCur, Oracle, x, 1, "proof").err = "Source not trusted"
          /\ ~submitData(addTrustedSource(OCur, Deployer, x, "Manual").st,
                         Oracle, x, 1, "proof").ok
          /\ Visible(OCur, y) # {}

\* C26 Oracle read surface: for every source and every fromTime, toTime,
\* getVerifiedData returns exactly the entries of that source's history whose
\* data point has isVerified = TRUE and fromTime <= timestamp <= toTime, ids
\* and values aligned, in submission order; getAggregateValue returns the sum
\* of those values and their count.
QueryTimes == StartTime..MaxTime

\* the entries of the history that the query is to return, in order
C26_Expected(o, source, from, to) ==
    LET Wanted(id) == /\ dataPointAt(o, id).isVerified
                      /\ from <= dataPointAt(o, id).timestamp
                      /\ dataPointAt(o, id).timestamp <= to
    IN SelectSeq(o.sourceDataHistory[source], Wanted)

RECURSIVE C26_Sum(_, _)
C26_Sum(o, ids) ==
    IF ids = <<>> THEN 0
    ELSE dataPointAt(o, Head(ids)).value + C26_Sum(o, Tail(ids))

C26_Answers(o, source) ==
    \A from \in QueryTimes, to \in QueryTimes :
        LET expected == C26_Expected(o, source, from, to)
            res == getVerifiedData(o, source, from, to)
        IN /\ res.validDataIds = expected
           /\ res.values = [k \in 1..Len(expected) |-> dataPointAt(o, expected[k]).value]
           /\ getAggregateValue(o, source, from, to)
                 = [totalValue |-> C26_Sum(o, expected),
                    dataPointCount |-> Len(expected)]

\* a verified submission of the largest value added to storage o, the same
\* payload submitted once more in the same block (which resets isVerified of
\* the one data point both history entries name), and that verified again
C26_Submitted(o, x) ==
    verifyData(submitData(o, Oracle, x, MaxValue + 1, "proof").st, Deployer,
               DataId(x, MaxValue + 1, now, Oracle), TRUE).st

C26_Resubmitted(o, x) ==
    submitData(C26_Submitted(o, x), Oracle, x, MaxValue + 1, "proof").st

C26_ReadSurface ==
    \A x \in Sources :
        \A o \in {OCur, C26_Submitted(OCur, x), C26_Resubmitted(OCur, x),
                  C26_Submitted(C26_Submitted(OCur, x), x)} :
            C26_Answers(o, x)

\* a source whose stored data point is verified and older than the current
\* block, so that one more verified submission gives a two-entry answer with
\* different values, and a query from the current block only the new entry
C26_Witness ==
    \E x \in Sources :
        /\ trustedSources[x] /\ ~oraclePaused
        /\ Len(sourceDataHistory[x]) = 1
        /\ dataPoints[sourceDataHistory[x][1]].isVerified
        /\ dataPoints[sourceDataHistory[x][1]].timestamp < now
        /\ getVerifiedData(OCur, x, StartTime, now).values = <<1>>
        /\ getVerifiedData(C26_Submitted(OCur, x), x, StartTime, now).values
              = <<1, MaxValue + 1>>
        /\ getVerifiedData(C26_Submitted(OCur, x), x, now, now).values
              = <<MaxValue + 1>>
        /\ getVerifiedData(C26_Resubmitted(OCur, x), x, StartTime, now).values = <<1>>

\* the holders of ORACLE_OPERATOR_ROLE
Operators == {Deployer, Auditor}

\* C27 verifyData is last-writer-wins: it is rejected with no state change for
\* an id that was never submitted; for an existing data point, after verifyData
\* calls by any operators with any verdicts, isVerified is the verdict of the
\* last call and the recorded verifier the last caller, nothing else of the
\* storage changes, and calling it twice with the same verdict equals calling
\* it once.
C27_LastWriterWins ==
    /\ \A id \in AnyDataId \ DOMAIN dataPoints :
          \A a \in Operators, b \in BOOLEAN :
              LET r == verifyData(OCur, a, id, b)
              IN ~r.ok /\ r.err = "Data point does not exist" /\ r.st = OCur
    /\ \A id \in DOMAIN dataPoints :
          \A a1 \in Operators, b1 \in BOOLEAN :
              \E r1 \in {verifyData(OCur, a1, id, b1)} :
                  /\ r1.ok
                  /\ r1.st = [OCur EXCEPT !.dataPoints[id].isVerified = b1,
                                          !.dataPoints[id].verifier = a1]
                  /\ verifyData(r1.st, a1, id, b1).st = r1.st
                  /\ \A a2 \in Operators, b2 \in BOOLEAN :
                        LET r2 == verifyData(r1.st, a2, id, b2)
                        IN /\ r2.ok
                           /\ r2.st.dataPoints[id].isVerified = b2
                           /\ r2.st.dataPoints[id].verifier = a2
                           /\ r2.st = verifyData(OCur, a2, id, b2).st

\* a data point whose verdict was withdrawn: unverified, verifier an operator
C27_Witness ==
    \E id \in DOMAIN dataPoints :
        /\ ~dataPoints[id].isVerified
        /\ dataPoints[id].verifier = Deployer
        /\ \E other \in DOMAIN dataPoints : dataPoints[other].isVerified

\* C28 Trusted-source registry: addTrustedSource(key, type) sets trusted =
\* TRUE, the type, and reliabilityScore to the current threshold of that type,
\* and applying it twice in a row gives the same state as applying it once;
\* removeTrustedSource sets trusted = FALSE and clears type and score; a
\* removed source that is re-added gets the type's current threshold as score
\* regardless of any score it had before removal.
C28_Registry ==
    \A a \in Operators, x \in Sources :
        /\ \A ty \in DataSourceType :
              \E r \in {addTrustedSource(OCur, a, x, ty)} :
                  /\ r.ok
                  /\ r.st = [OCur EXCEPT
                               !.trustedSources[x] = TRUE,
                               !.sourceTypes[x] = ty,
                               !.sourceReliabilityScore[x] = verificationThresholds[ty]]
                  /\ addTrustedSource(r.st, a, x, ty).st = r.st
        /\ \E r \in {removeTrustedSource(OCur, a, x)} :
              /\ r.ok
              /\ r.st = [OCur EXCEPT !.trustedSources[x] = FALSE,
                                     !.sourceTypes[x] = DefaultSourceType,
                                     !.sourceReliabilityScore[x] = 0]
              /\ \A ty \in DataSourceType :
                    LET again == addTrustedSource(r.st, a, x, ty)
                    IN /\ again.ok
                       /\ again.st.trustedSources[x]
                       /\ again.st.sourceTypes[x] = ty
                       /\ again.st.sourceReliabilityScore[x] = verificationThresholds[ty]

\* a trusted source whose score is no longer its type's threshold
C28_Witness ==
    \E x \in Sources :
        /\ trustedSources[x]
        /\ sourceTypes[x] = "Manual"
        /\ sourceReliabilityScore[x] # verificationThresholds[sourceTypes[x]]

\* C29 Score bounds: updateVerificationThreshold and updateSourceReliability
\* reject values above 100 with no state change, so in every reachable state
\* every type threshold and every source reliabilityScore is within 0..100;
\* updateSourceReliability is additionally rejected for a source that is not
\* currently trusted, so every untrusted source has score 0.
ScoreInputs == {0, MaxScore, MaxScore + 1}

C29_ScoreBounds ==
    /\ \A ty \in DataSourceType : verificationThresholds[ty] \in 0..MaxScore
    /\ \A x \in Sources :
          /\ sourceReliabilityScore[x] \in 0..MaxScore
          /\ ~trustedSources[x] => sourceReliabilityScore[x] = 0
    /\ \A a \in Operators, n \in ScoreInputs :
          /\ \A ty \in DataSourceType :
                LET r == updateVerificationThreshold(OCur, a, ty, n)
                IN IF n > MaxScore
                     THEN ~r.ok /\ r.st = OCur /\ r.err = "Threshold cannot exceed 100"
                     ELSE r.ok /\ r.st = [OCur EXCEPT !.verificationThresholds[ty] = n]
          /\ \A x \in Sources :
                LET r == updateSourceReliability(OCur, a, x, n)
                IN IF ~trustedSources[x]
                     THEN ~r.ok /\ r.st = OCur /\ r.err = "Source not trusted"
                   ELSE IF n > MaxScore
                     THEN ~r.ok /\ r.st = OCur /\ r.err = "Score cannot exceed 100"
                     ELSE r.ok /\ r.st = [OCur EXCEPT !.sourceReliabilityScore[x] = n]

\* a threshold and a score at the upper bound, next to a source that was
\* trusted once and is not any more
C29_Witness ==
    /\ \E ty \in DataSourceType : verificationThresholds[ty] = MaxScore
    /\ \E x, y \in Sources :
          /\ trustedSources[x] /\ sourceReliabilityScore[x] = MaxScore
          /\ ~trustedSources[y] /\ sourceDataHistory[y] # <<>>

\* C31 No milestone is ever observable as Verified and unpaid: in every
\* reachable state, status = Verified implies paid = TRUE.
C31_VerifiedImpliesPaid ==
    \A m \in MilestoneIds : milestones[m].status = "Verified" => milestones[m].paid

\* a Verified, paid milestone next to a Pending one whose verification would
\* find the contract without the funds to pay it
C31_Witness ==
    \E m, k \in MilestoneIds :
        /\ milestones[m].status = "Verified" /\ milestones[m].paid
        /\ milestones[k].status = "Pending" /\ now <= milestones[k].deadline
        /\ projects[milestones[k].projectId].status = "Active"
        /\ balance < milestones[k].subsidyAmount
        /\ ~verifyMilestone(Cur, Oracle, k, milestones[k].targetValue, TRUE).ok

\* C32 as stated: an Active project never rests in a state where it has at
\* least one milestone and every one of its milestones is Verified and paid;
\* a resolveDispute(approve = TRUE) on an already paid milestone that produces
\* such a milestone set leaves the project Completed.
C32_AllVerifiedPaid(s, pid) ==
    /\ s.projects[pid].milestoneIds # <<>>
    /\ \A i \in 1..Len(s.projects[pid].milestoneIds) :
          LET m == s.milestones[s.projects[pid].milestoneIds[i]]
          IN m.status = "Verified" /\ m.paid

C32_ActiveNeverAllPaid ==
    /\ \A pid \in ProjectIds :
          projects[pid].status = "Active" => ~C32_AllVerifiedPaid(Cur, pid)
    /\ \A m \in MilestoneIds :
          LET r == resolveDispute(Cur, Auditor, m, TRUE)
              pid == milestones[m].projectId
          IN (r.ok /\ projects[pid].status = "Active"
                /\ C32_AllVerifiedPaid(r.st, pid))
                => r.st.projects[pid].status = "Completed"

\* C33 Payment atomicity under re-entry: paid, disbursedAmount and
\* totalDisbursed are all written before the transfer to the producer is made,
\* so in the storage the recipient sees during the transfer, as in every state
\* between operations, a milestone is paid exactly when its amount is included
\* in disbursedAmount and totalDisbursed; and no verifyMilestone /
\* resolveDispute (nor disputeMilestone followed by one of them) issued on the
\* same milestone during the transfer causes a second payment of it.
C33_Booked(s) ==
    LET ids == 1..(s.nextMilestoneId - 1)
    IN /\ s.totalDisbursed = PaidSum(s.milestones, ids)
       /\ \A pid \in 1..(s.nextProjectId - 1) :
             s.projects[pid].disbursedAmount
                = PaidSum(s.milestones, {m \in ids : s.milestones[m].projectId = pid})

\* the storage at line 222 or 316, where a payment of milestone m that will
\* go through begins
C33_Paying(m) ==
    LET ms == milestones[m]
    IN IF /\ ~ms.paid
          /\ projects[ms.projectId].status = "Active"
          /\ balance >= ms.subsidyAmount
          /\ \/ ms.status = "Pending" /\ now <= ms.deadline
             \/ ms.status = "Disputed"
         THEN {[Cur EXCEPT !.milestones[m].status = "Verified"]}
         ELSE {}

\* the calls the recipient may issue on milestone m while it holds control
C33_Nested(s, m) ==
    LET re == {s.projects[s.milestones[m].projectId].producer, Oracle, Auditor}
    IN {verifyMilestone(s, a, m, s.milestones[m].targetValue, b).st :
            a \in re, b \in BOOLEAN}
       \cup {resolveDispute(s, a, m, b).st : a \in re, b \in BOOLEAN}
       \cup {disputeMilestone(s, a, m).st : a \in re}

C33_SamePayment(s, mid, m) ==
    /\ s.milestones[m].paid
    /\ s.transferCount[m] = 1
    /\ s.totalDisbursed = mid.totalDisbursed
    /\ s.ethReceived = mid.ethReceived
    /\ s.balance = mid.balance
    /\ C33_Booked(s)

C33_PaymentAtomicity ==
    /\ C33_Booked(Cur)
    /\ \A m \in MilestoneIds : \A s0 \in C33_Paying(m) :
          \E mid \in {atTransfer(s0, m)} :
              /\ mid.milestones[m].paid
              /\ mid.totalDisbursed = totalDisbursed + milestones[m].subsidyAmount
              /\ C33_Booked(mid)
              /\ \A a \in Callers, b \in BOOLEAN :
                    /\ ~verifyMilestone(mid, a, m, milestones[m].targetValue, b).ok
                    /\ ~resolveDispute(mid, a, m, b).ok
              /\ \A s1 \in C33_Nested(mid, m) :
                    /\ C33_SamePayment(s1, mid, m)
                    /\ \A s2 \in C33_Nested(s1, m) : C33_SamePayment(s2, mid, m)

\* a payment about to be made during whose transfer the producer can open a
\* dispute on the very milestone being paid, while another milestone is paid
C33_Witness ==
    \E m, k \in MilestoneIds : \E s0 \in C33_Paying(m) :
        /\ milestones[m].status = "Pending"
        /\ milestones[k].paid
        /\ disputeMilestone(atTransfer(s0, m),
                            projects[milestones[m].projectId].producer, m).ok

\* C34 Order independence of serialized verifications: for two distinct
\* Pending milestones of the same Active project, both before deadline and
\* with funds sufficient for both, applying their two verifyMilestone calls in
\* either order yields the same final state; when funds suffice for only one
\* of two successful verifications, exactly one milestone is paid (the first
\* verified), the other call is rejected, and neither order disburses more
\* than the funds held.
C34_Pair(m1, m2) ==
    /\ m1 # m2
    /\ milestones[m1].projectId = milestones[m2].projectId
    /\ projects[milestones[m1].projectId].status = "Active"
    /\ milestones[m1].status = "Pending" /\ now <= milestones[m1].deadline
    /\ milestones[m2].status = "Pending" /\ now <= milestones[m2].deadline

\* verifyMilestone on ma, then on mb
C34_Then(ma, ca, mb, cb) ==
    verifyMilestone(verifyMilestone(Cur, ca.by, ma, ca.value, ca.success).st,
                    cb.by, mb, cb.value, cb.success)

C34_Verdicts == [by : {Oracle, Auditor}, value : Values, success : BOOLEAN]

C34_FundsForBoth(m1, m2) ==
    balance >= milestones[m1].subsidyAmount + milestones[m2].subsidyAmount

C34_FundsForOne(m1, m2) ==
    /\ balance >= milestones[m1].subsidyAmount
    /\ balance >= milestones[m2].subsidyAmount
    /\ ~C34_FundsForBoth(m1, m2)

C34_OrderIndependence ==
    \A m1, m2 \in MilestoneIds :
        C34_Pair(m1, m2) =>
            /\ C34_FundsForBoth(m1, m2) =>
                  \A c1, c2 \in C34_Verdicts :
                      \E r12 \in {C34_Then(m1, c1, m2, c2)} :
                          /\ r12.ok
                          /\ r12.st = C34_Then(m2, c2, m1, c1).st
            /\ C34_FundsForOne(m1, m2) =>
                  \A a1, a2 \in {Oracle, Auditor} :
                      LET c1 == [by |-> a1, value |-> milestones[m1].targetValue,
                                 success |-> TRUE]
                          c2 == [by |-> a2, value |-> milestones[m2].targetValue,
                                 success |-> TRUE]
                      IN \E r12 \in {C34_Then(m1, c1, m2, c2)} :
                             /\ ~r12.ok /\ r12.err = "Insufficient contract balance"
                             /\ r12.st.milestones[m1].paid
                             /\ ~r12.st.milestones[m2].paid
                             /\ r12.st.milestones[m2].status = "Pending"
                             /\ r12.st.totalDisbursed - totalDisbursed <= balance
                             /\ r12.st.balance >= 0

\* two Pending milestones of one Active project before their deadlines, the
\* contract holding enough for both, whose verifications complete the project
C34_Witness ==
    \E m1, m2 \in MilestoneIds :
        /\ C34_Pair(m1, m2) /\ C34_FundsForBoth(m1, m2)
        /\ milestones[m1].subsidyAmount > 0
        /\ LET c == [by |-> Oracle, value |-> MaxValue, success |-> TRUE]
           IN C34_Then(m1, c, m2, c).st.projects[milestones[m1].projectId].status
                 = "Completed"

\* the same pair when the contract holds enough for one payment only
C34_WitnessFundsForOne ==
    \E m1, m2 \in MilestoneIds : C34_Pair(m1, m2) /\ C34_FundsForOne(m1, m2)

\* C35 Stranded milestones: once now > deadline for a milestone that is still
\* Pending, that milestone stays Pending with paid = FALSE in every later
\* state (no operation, including disputeMilestone and resolveDispute, can
\* move it), and its owning project is never moved to Completed by the
\* automatic completion rule.
Stranded(m) ==
    milestones[m].status = "Pending" /\ now > milestones[m].deadline

C35_Operators ==
    \A m \in MilestoneIds : Stranded(m) =>
        LET pid == milestones[m].projectId
        IN /\ ~milestones[m].paid
           /\ \A a \in {Oracle, Auditor}, av \in Values, b \in BOOLEAN :
                 LET r == verifyMilestone(Cur, a, m, av, b)
                 IN ~r.ok /\ r.st = Cur
           /\ \A a \in {Government, projects[pid].producer, Deployer} :
                 LET r == disputeMilestone(Cur, a, m)
                 IN ~r.ok /\ r.st = Cur
           /\ \A b \in BOOLEAN :
                 LET r == resolveDispute(Cur, Auditor, m, b)
                 IN ~r.ok /\ r.st = Cur
           /\ _checkProjectCompletion(Cur, pid).st = Cur
           /\ \A k \in MilestoneIds \ {m} :
                 /\ \A av \in Values, b \in BOOLEAN :
                       LET r == verifyMilestone(Cur, Oracle, k, av, b)
                       IN r.st.projects[pid].status = projects[pid].status
                 /\ \A b \in BOOLEAN :
                       LET r == resolveDispute(Cur, Auditor, k, b)
                       IN r.st.projects[pid].status = projects[pid].status

C35_StrandedForever ==
    /\ []C35_Operators
    /\ [][\A m \in MilestoneIds : Stranded(m) =>
            /\ milestones'[m] = milestones[m]
            /\ now' > milestones'[m].deadline
            /\ LET pid == milestones[m].projectId
               IN (projects'[pid].status = "Completed"
                     /\ projects[pid].status # "Completed")
                    => /\ milestones' = milestones
                       /\ totalDisbursed' = totalDisbursed
                       /\ balance' = balance
         ]_vars

\* a stranded milestone in an Active project whose other milestone is
\* Verified and paid
C35_Witness ==
    \E m, k \in MilestoneIds :
        /\ Stranded(m)
        /\ milestones[k].projectId = milestones[m].projectId
        /\ milestones[k].status = "Verified" /\ milestones[k].paid
        /\ projects[milestones[m].projectId].status = "Active"

\* C36 as stated: in every reachable state every paid milestone has
\* actualValue >= targetValue and was verified no later than its deadline;
\* resolveDispute does not pay a milestone whose verification recorded
\* actualValue < targetValue or success = FALSE.
C36_PaidMetTarget ==
    \A m \in MilestoneIds :
        /\ milestones[m].paid =>
              /\ milestones[m].actualValue >= milestones[m].targetValue
              /\ milestones[m].verifiedAt <= milestones[m].deadline
        /\ (milestones[m].status = "Disputed"
              /\ milestones[m].actualValue < milestones[m].targetValue) =>
              ~resolveDispute(Cur, Auditor, m, TRUE).st.milestones[m].paid

\* C36 amended: every paid milestone was verified, with whatever verdict, no
\* later than its deadline, and was paid either by a verifyMilestone with
\* success = TRUE and actualValue >= targetValue or by an Auditor's
\* resolveDispute(approve = TRUE) on the Disputed milestone; verifyMilestone
\* never pays a milestone with actualValue < targetValue or success = FALSE,
\* while the dispute path pays an unpaid Disputed milestone of an Active
\* project whatever value and verdict its verification recorded.
C36_Operators ==
    \A m \in MilestoneIds :
        /\ milestones[m].paid =>
              /\ milestones[m].verifiedAt >= StartTime
              /\ milestones[m].verifiedAt <= milestones[m].deadline
              /\ milestones[m].verifiedBy # Zero
        /\ \A a \in {Oracle, Auditor}, av \in AnyValue, b \in BOOLEAN :
              LET r == verifyMilestone(Cur, a, m, av, b)
              IN (r.ok /\ ~(b /\ av >= milestones[m].targetValue)) =>
                    /\ r.st.milestones[m].status = "Failed"
                    /\ ~r.st.milestones[m].paid
                    /\ r.st.totalDisbursed = totalDisbursed
        /\ (/\ milestones[m].status = "Disputed" /\ ~milestones[m].paid
            /\ projects[milestones[m].projectId].status = "Active"
            /\ balance >= milestones[m].subsidyAmount) =>
              LET r == resolveDispute(Cur, Auditor, m, TRUE)
              IN /\ r.ok
                 /\ r.st.milestones[m].paid
                 /\ r.st.milestones[m].actualValue = milestones[m].actualValue
                 /\ r.st.milestones[m].verifiedAt = milestones[m].verifiedAt

C36_PaidByVerdictOrApproval ==
    /\ []C36_Operators
    /\ [][\A m \in MilestoneIds :
            (~milestones[m].paid /\ milestones'[m].paid) =>
                /\ milestones'[m].status = "Verified"
                /\ \/ /\ milestones[m].status = "Pending"
                      /\ milestones'[m].actualValue >= milestones[m].targetValue
                      /\ milestones'[m].verifiedAt = now
                      /\ now <= milestones[m].deadline
                   \/ /\ milestones[m].status = "Disputed"
                      /\ milestones'[m].actualValue = milestones[m].actualValue
                      /\ milestones'[m].verifiedAt = milestones[m].verifiedAt
         ]_vars

\* a paid milestone whose recorded actualValue is below its target, its
\* deadline passed
C36_Witness ==
    \E m \in MilestoneIds :
        /\ milestones[m].paid
        /\ milestones[m].actualValue < milestones[m].targetValue
        /\ milestones[m].status = "Verified"
        /\ now > milestones[m].deadline

\* C37 as stated: in every reachable state the sum of totalSubsidyAmount over
\* all registered projects is at most totalSubsidyPool, each registration
\* being checked against the funds not promised to earlier projects.
RECURSIVE Promised(_, _)
\* the sum of totalSubsidyAmount over the projects 1..n of storage s
Promised(s, n) ==
    IF n = 0 THEN 0 ELSE s.projects[n].totalSubsidyAmount + Promised(s, n - 1)

C37_PoolNotOverCommitted ==
    /\ Promised(Cur, nextProjectId - 1) <= totalSubsidyPool
    /\ \A a \in GovCallers, v \in Amounts :
          LET r == registerProject(Cur, a, Producer, "H2", v)
          IN r.ok => Promised(r.st, r.st.nextProjectId - 1) <= totalSubsidyPool

\* C38 Id and ownership structure: project ids and milestone ids are assigned
\* 1, 2, 3, ... in order of successful creation (both counters start at 1 and
\* never decrease); every milestone id appears in the milestoneIds list of
\* exactly one project, exactly once, that project being milestone.projectId;
\* each milestoneIds list and each producer's project list is in creation
\* order and only ever grows by appending.
Occurrences(seq, x) == Cardinality({i \in 1..Len(seq) : seq[i] = x})

Increasing(seq) == \A i, j \in 1..Len(seq) : i < j => seq[i] < seq[j]

IsPrefix(a, b) == Len(a) <= Len(b) /\ SubSeq(b, 1, Len(a)) = a

C38_Structure ==
    /\ nextProjectId >= 1 /\ nextMilestoneId >= 1
    /\ DOMAIN projects = ProjectIds /\ DOMAIN milestones = MilestoneIds
    /\ \A m \in MilestoneIds :
          /\ milestones[m].projectId \in ProjectIds
          /\ \A pid \in ProjectIds :
                Occurrences(projects[pid].milestoneIds, m)
                   = IF pid = milestones[m].projectId THEN 1 ELSE 0
    /\ \A pid \in ProjectIds :
          /\ Increasing(projects[pid].milestoneIds)
          /\ \A i \in 1..Len(projects[pid].milestoneIds) :
                projects[pid].milestoneIds[i] \in MilestoneIds
          /\ \A a \in Address :
                Occurrences(producerProjects[a], pid)
                   = IF a = projects[pid].producer THEN 1 ELSE 0
    /\ \A a \in Address :
          /\ Increasing(producerProjects[a])
          /\ \A i \in 1..Len(producerProjects[a]) : producerProjects[a][i] \in ProjectIds

\* a successful creation takes the counter's value as the new id
C38_Creation ==
    /\ \A a \in GovCallers, pr \in Producers, v \in Amounts :
          LET r == registerProject(Cur, a, pr, "H2", v)
          IN IF r.ok
               THEN /\ r.ev[Len(r.ev)].projectId = nextProjectId
                    /\ r.st.nextProjectId = nextProjectId + 1
                    /\ r.st.producerProjects[pr] = Append(producerProjects[pr], nextProjectId)
               ELSE r.st.nextProjectId = nextProjectId
    /\ \A a \in GovCallers, pid \in ProjectIds, v \in Amounts :
          LET r == addMilestone(Cur, a, pid, "H2", v, 1, now + 1)
          IN IF r.ok
               THEN /\ r.ev[Len(r.ev)].milestoneId = nextMilestoneId
                    /\ r.st.nextMilestoneId = nextMilestoneId + 1
                    /\ r.st.milestones[nextMilestoneId].projectId = pid
                    /\ r.st.projects[pid].milestoneIds
                          = Append(projects[pid].milestoneIds, nextMilestoneId)
               ELSE r.st.nextMilestoneId = nextMilestoneId

C38_IdStructure ==
    /\ [](C38_Structure /\ C38_Creation)
    /\ [][/\ nextProjectId' \in {nextProjectId, nextProjectId + 1}
          /\ nextMilestoneId' \in {nextMilestoneId, nextMilestoneId + 1}
          /\ \A pid \in ProjectIds :
                /\ IsPrefix(projects[pid].milestoneIds, projects'[pid].milestoneIds)
                /\ projects'[pid].producer = projects[pid].producer
          /\ \A m \in MilestoneIds : milestones'[m].projectId = milestones[m].projectId
          /\ \A a \in Address : IsPrefix(producerProjects[a], producerProjects'[a])
         ]_vars

\* one producer with two projects, the first milestone created belonging to
\* the second project
C38_Witness ==
    /\ nextProjectId = 3 /\ nextMilestoneId = 2
    /\ \E a \in Address : producerProjects[a] = <<1, 2>>
    /\ projects[2].milestoneIds = <<1>>
    /\ projects[1].milestoneIds = <<>>
    /\ milestones[1].projectId = 2

\* C39 as stated: each successful submitData stores a new data point and
\* never alters an existing one: it changes neither value, timestamp nor
\* isVerified of a previously stored data point and never appends to a
\* source's history an id that is already in it, even when the same provider
\* submits the same source and value twice at the same timestamp; a source's
\* history only grows by appending.
C39_InHistory(o, source, id) ==
    \E i \in 1..Len(o.sourceDataHistory[source]) : o.sourceDataHistory[source][i] = id

C39_SubmitStoresNew ==
    \A a \in ProviderCallers, x \in Sources, v \in 1..MaxValue :
        LET r == submitData(OCur, a, x, v, "proof")
            id == DataId(x, v, now, a)
        IN r.ok =>
              /\ \A old \in DOMAIN dataPoints :
                    /\ r.st.dataPoints[old].value = dataPoints[old].value
                    /\ r.st.dataPoints[old].timestamp = dataPoints[old].timestamp
                    /\ r.st.dataPoints[old].isVerified = dataPoints[old].isVerified
              /\ ~C39_InHistory(OCur, x, id)
              /\ r.st.sourceDataHistory[x] = Append(sourceDataHistory[x], id)
              /\ \A y \in Sources \ {x} :
                    r.st.sourceDataHistory[y] = sourceDataHistory[y]

====
